---- MODULE Spec2Model ----
(***************************************************************************)
(* Model of the audio core of the speech converter (src/utils/audio.ts):   *)
(* addWavHeader, convertToMp3, mixAudio and generateSynthesizedTrack, with *)
(* the module-level filter state lastOut.                                  *)
(*                                                                         *)
(* Floating point samples are fixed-point integers: the float 1.0 is       *)
(* FloatOne. Byte buffers are sequences of 0..255, 1-based, so the byte at *)
(* offset k of the source is element k+1 here.                             *)
(***************************************************************************)
EXTENDS Integers, Sequences, FiniteSets, TLC

VARIABLES
    lamejs,     \* TRUE iff the global `lamejs` is defined (audio.ts:68)
    wav,        \* the last addWavHeader / convertToMp3 call and its outcome
    wavBlob,    \* what that call returned
    mix,        \* the mixAudio call: position, inputs, buffers, outcome
    openCtx,    \* AudioContexts created by mixAudio and not closed
    synth,      \* the generateSynthesizedTrack call: position, buffers, outcome
    lastOut,    \* module-level `let lastOut` (audio.ts:251)
    synthLog,   \* first blob returned per preset (observation only)
    b64,        \* the base64ToUint8Array call and its outcome
    tts,        \* the processTTS call (App.tsx): position, speech, result
    synthB,     \* a second generateSynthesizedTrack call, in flight beside `synth`
    svc,        \* a call of a service function of gemini.ts and its outcome
    video,      \* the generateVideo call: position, operation seen, outcome
    rec,        \* the AudioRecorder component: state, refs, recorders, timers
    app         \* the App component: its state and the handlers in flight

vars == <<lamejs, wav, wavBlob, mix, openCtx, synth, lastOut, synthLog, b64, tts, synthB, svc,
          video, rec, app>>

----------------------------------------------------------------------------
(* Bounds of the model *)

\* longest PCM byte buffer handed to addWavHeader / convertToMp3
MaxPcmLen == 3

\* bytes the PCM inputs are drawn from
ByteValues == {0, 255}

\* sample rates and channel counts the callers pass
\* (gemini.ts:52 and AudioCard.tsx:49 pass 24000, 1; audio.ts:247 passes 44100, 1)
SampleRates == {24000, 44100}
ChannelCounts == {1, 2}

----------------------------------------------------------------------------
(* Helpers: sequences and integer conversions *)

RECURSIVE SeqsUpTo(_, _)
\* all sequences over S of length 0..n
SeqsUpTo(S, n) ==
    IF n = 0 THEN {<<>>}
    ELSE LET shorter == SeqsUpTo(S, n - 1)
         IN  shorter \cup {Append(s, x) : s \in {t \in shorter : Len(t) = n - 1}, x \in S}

RECURSIVE Flatten(_)
\* concatenation of a sequence of sequences
Flatten(ss) == IF ss = <<>> THEN <<>> ELSE Head(ss) \o Flatten(Tail(ss))

\* JS number -> integer conversion truncates toward zero
TruncDiv(a, b) == IF a >= 0 THEN a \div b ELSE -((-a) \div b)

\* the characters written by writeString, as char codes
CharCodes(s) ==
    CASE s = "RIFF" -> <<82, 73, 70, 70>>
      [] s = "WAVE" -> <<87, 65, 86, 69>>
      [] s = "fmt " -> <<102, 109, 116, 32>>
      [] s = "data" -> <<100, 97, 116, 97>>

\* mutant: the littleEndian argument left out, most significant byte first
setUint32BigEndian(v) ==
    <<(v \div 16777216) % 256, (v \div 65536) % 256, (v \div 256) % 256, v % 256>>

\* DataView.setUint32(_, v, true): v modulo 2^32, least significant byte first.
\* 2^32 is above TLC's integers: every v of the model is below 2^31, where
\* the reduction is the identity, so the four bytes are taken from v itself.
setUint32(v) ==
    <<v % 256, (v \div 256) % 256, (v \div 65536) % 256, (v \div 16777216) % 256>>

\* DataView.setUint16(_, v, true): v modulo 2^16, least significant byte first
setUint16(v) == <<(v % 65536) % 256, ((v % 65536) \div 256) % 256>>

\* little-endian reads, used to state the claims
getUint32(b, off) ==
    b[off + 1] + 256 * b[off + 2] + 65536 * b[off + 3] + 16777216 * b[off + 4]
getUint16(b, off) == b[off + 1] + 256 * b[off + 2]

\* storing a number into an Int16Array: truncated integer modulo 2^16, signed
ToInt16(v) == ((v + 32768) % 65536) - 32768

\* new Uint8Array(int16Array.buffer): two bytes per sample, little-endian
Int16Bytes(samples) ==
    Flatten([i \in 1..Len(samples) |->
                LET u == samples[i] % 65536 IN <<u % 256, u \div 256>>])

\* new Int16Array(uint8Array.buffer): one sample per two bytes, little-endian
BytesInt16(bytes) ==
    [i \in 1..(Len(bytes) \div 2) |-> ToInt16(bytes[2 * i - 1] + 256 * bytes[2 * i])]

----------------------------------------------------------------------------
(* addWavHeader, audio.ts:18-54 *)

\* mutant: the payload written at offset 40 instead of 44
addWavHeaderShifted(samples, sampleRate, numChannels) ==
       CharCodes("RIFF") \o setUint32(36 + Len(samples)) \o CharCodes("WAVE")
    \o CharCodes("fmt ") \o setUint32(16) \o setUint16(1) \o setUint16(numChannels)
    \o setUint32(sampleRate) \o setUint32(sampleRate * numChannels * 2)
    \o setUint16(numChannels * 2) \o setUint16(16) \o CharCodes("data")
    \o samples \o <<0, 0, 0, 0>>

\* mutant: the byte rate written without the two bytes per sample
addWavHeaderByteRate(samples, sampleRate, numChannels) ==
       CharCodes("RIFF") \o setUint32(36 + Len(samples)) \o CharCodes("WAVE")
    \o CharCodes("fmt ") \o setUint32(16) \o setUint16(1) \o setUint16(numChannels)
    \o setUint32(sampleRate) \o setUint32(sampleRate * numChannels)
    \o setUint16(numChannels * 2) \o setUint16(16) \o CharCodes("data")
    \o setUint32(Len(samples)) \o samples

addWavHeader(samples, sampleRate, numChannels) ==
       CharCodes("RIFF")
    \o setUint32(36 + Len(samples))
    \o CharCodes("WAVE")
    \o CharCodes("fmt ")
    \o setUint32(16)
    \o setUint16(1)
    \o setUint16(numChannels)
    \o setUint32(sampleRate)
    \o setUint32(sampleRate * numChannels * 2)
    \o setUint16(numChannels * 2)
    \o setUint16(16)
    \o CharCodes("data")
    \o setUint32(Len(samples))
    \o samples

\* new Blob([...], { type })
Blob(bytes, type) == [type |-> type, bytes |-> bytes]

NoBlob == [type |-> "none", bytes |-> <<>>]

----------------------------------------------------------------------------
(* convertToMp3, audio.ts:66-96 *)

\* const blockSize = 1152 (audio.ts:81)
blockSize == 1152

\* the start offsets i = 0, blockSize, 2*blockSize, ... < n of the encode loop
BlockStarts(n) == {i \in 0..n : i % blockSize = 0 /\ i < n}

\* mutant: each block taken one sample longer, overlapping the next
subarrayOverlap(samples, i) ==
    SubSeq(samples, i + 1,
           IF i + blockSize + 1 < Len(samples) THEN i + blockSize + 1 ELSE Len(samples))

\* samples.subarray(i, i + blockSize), i 0-based
subarray(samples, i) ==
    SubSeq(samples, i + 1, IF i + blockSize < Len(samples) THEN i + blockSize ELSE Len(samples))

\* The encoder is a collaborator: what a call does is its choice. emits[k]
\* says what the k-th call (the encodeBuffer calls in order, then flush) does:
\* it returns an empty buffer, returns a non-empty one, or throws. A non-empty
\* buffer is modelled by the one byte k.
EncoderReplies == {"empty", "bytes", "throws"}

EncoderOutput(emits, k) == IF emits[k] = "bytes" THEN <<k>> ELSE <<>>

\* the first of the calls 1..n that throws, 0 if none does
firstThrow(emits, n) ==
    IF \E k \in 1..n : emits[k] = "throws"
    THEN CHOOSE k \in 1..n : emits[k] = "throws" /\ \A j \in 1..(k - 1) : emits[j] # "throws"
    ELSE 0

\* Storage. The byte buffers of a call are numbered: buffer 1 is the caller's
\* input, nbufs buffers exist, `written` are those the call wrote into, and
\* the call's result is backed by buffer `out`.

\* mutant: the result written over the caller's buffer
allocInPlace(w) == [w EXCEPT !.written = @ \cup {1}, !.out = 1]

\* new ArrayBuffer(n) / new Blob(parts): a buffer of its own, then filled
alloc(w) ==
    [w EXCEPT !.nbufs = @ + 1, !.written = @ \cup {w.nbufs + 1}, !.out = w.nbufs + 1]

\* the wav record for a call that has not happened
NoWav == [op |-> "none", pcm |-> <<>>, rate |-> 0, ch |-> 0,
          status |-> "none", encCalls |-> <<>>,
          nbufs |-> 0, written |-> {}, out |-> 0]

\* a call entered with its arguments, nothing returned yet
wavCalled(op, pcm, rate, ch) ==
    [NoWav EXCEPT !.op = op, !.pcm = pcm, !.rate = rate, !.ch = ch, !.nbufs = 1]

\* a call that returned the bytes in the buffer w.out
wavReturns(w, bytes, type) ==
    [rec |-> [w EXCEPT !.status = "ok"], blob |-> Blob(bytes, type)]

\* gemini.ts:52 and audio.ts calling addWavHeader directly
AddWavHeader(pcm, rate, ch) ==
    /\ LET w == wavCalled("addWavHeader", pcm, rate, ch)
           r == wavReturns(alloc(w), addWavHeader(pcm, rate, ch), "bytes")
       IN  /\ wav' = r.rec
           /\ wavBlob' = r.blob
    /\ UNCHANGED <<lamejs, mix, openCtx, synth, lastOut, synthLog, b64, tts, synthB, svc,
                   video, rec, app>>

\* mutant: `typeof lamejs === undefined`, which no value satisfies
lamejsNeverMissing == FALSE

\* the lamejs-undefined branch, audio.ts:68-71
lamejsMissing == ~lamejs

\* mutant: the error caught, the WAV container returned in its place
mp3FallsBack(w, err, calls) ==
    wavReturns([alloc(alloc(w)) EXCEPT !.encCalls = calls],
               addWavHeader(w.pcm, w.rate, w.ch), "audio/wav")

\* an exception leaving convertToMp3: no catch in audio.ts:73-95, nothing returned
mp3Rejects(w, err, calls) ==
    [rec |-> [w EXCEPT !.status = err, !.out = 0, !.encCalls = calls], blob |-> NoBlob]

\* what convertToMp3 does with its arguments: the record of the call and the
\* Blob it returns
convertToMp3(pcm, rate, ch, emits) ==
    LET w == wavCalled("convertToMp3", pcm, rate, ch)
    IN  IF lamejsMissing
        THEN \* the ArrayBuffer of addWavHeader, then the Blob that copies it
             wavReturns(alloc(alloc(w)), addWavHeader(pcm, rate, ch), "audio/wav")
        ELSE IF Len(pcm) % 2 # 0
        THEN \* new Int16Array(buffer) throws RangeError on an odd byte length
             mp3Rejects(w, "RangeError", <<>>)
        ELSE LET \* a view of buffer 1, no copy
                 samples == BytesInt16(pcm)
                 n       == Cardinality(BlockStarts(Len(samples)))
                 calls   == [k \in 1..(n + 1) |->
                               IF k <= n
                               THEN [fn |-> "encodeBuffer",
                                     samples |-> subarray(samples, (k - 1) * blockSize),
                                     reply |-> emits[k],
                                     out |-> EncoderOutput(emits, k)]
                               ELSE [fn |-> "flush", samples |-> <<>>,
                                     reply |-> emits[k],
                                     out |-> EncoderOutput(emits, k)]]
                 thrown  == firstThrow(emits, n + 1)
                 mp3Data == Flatten([k \in 1..(n + 1) |-> calls[k].out])
             IN  IF thrown # 0
                 THEN mp3Rejects(w, "EncoderError", SubSeq(calls, 1, thrown))
                 ELSE wavReturns([alloc(w) EXCEPT !.encCalls = calls], mp3Data, "audio/mp3")

ConvertToMp3(pcm, rate, ch, emits) ==
    /\ wav' = convertToMp3(pcm, rate, ch, emits).rec
    /\ wavBlob' = convertToMp3(pcm, rate, ch, emits).blob
    /\ UNCHANGED <<lamejs, mix, openCtx, synth, lastOut, synthLog, b64, tts, synthB, svc,
                   video, rec, app>>

PcmInputs == SeqsUpTo(ByteValues, MaxPcmLen)

\* the most encoder calls a PCM input of the model causes (blocks, then flush)
MaxEncCalls == ((MaxPcmLen \div 2) + blockSize - 1) \div blockSize + 1

\* PCM inputs of whole blocks and their edges: sample k (1-based) has the
\* value k, written little-endian
MaxBlocks == 2

LongSampleCounts ==
    {b * blockSize + d : b \in 0..(MaxBlocks - 1), d \in {0, 1, blockSize - 1, blockSize}}

LongPcm(n) ==
    [i \in 1..(2 * n) |-> LET k == (i + 1) \div 2
                          IN  IF i % 2 = 1 THEN k % 256 ELSE k \div 256]

\* the sample rate of the speech, gemini.ts:52 and AudioCard.tsx:49
ttsSampleRate == 24000

\* two seconds of silence at ttsSampleRate, 16-bit mono
Silence == [i \in 1..(2 * 2 * ttsSampleRate) |-> 0]

----------------------------------------------------------------------------
(* Fixed-point floats *)

\* the float 1.0; a multiple of 51 and of 100, so that the filter step
\* (x + 0.02 w) / 1.02 = (50 x + w) / 51 and the gains 0.05, 0.15 are integral
FloatOne == 51 * 100

Max(a, b) == IF a >= b THEN a ELSE b
Min(a, b) == IF a <= b THEN a ELSE b

\* mutant: the sample scaled without the clamp
mixFloatTo16Unclamped(x) ==
    ToInt16(IF x < 0 THEN TruncDiv(x * 32768, FloatOne)
                     ELSE TruncDiv(x * 32767, FloatOne))

\* Float32 -> Int16 of mixAudio, audio.ts:142-143:
\*   let s = Math.max(-1, Math.min(1, data[i]));
\*   pcmData[i] = s < 0 ? s * 0x8000 : s * 0x7FFF;
mixFloatTo16(x) ==
    LET s == Max(-FloatOne, Min(FloatOne, x))
    IN  ToInt16(IF s < 0 THEN TruncDiv(s * 32768, FloatOne)
                         ELSE TruncDiv(s * 32767, FloatOne))

----------------------------------------------------------------------------
(* mixAudio, audio.ts:102-148 *)

\* most decoded frames of the speech and of the music
MaxSpeechFrames == 4
MaxMusicFrames == 2

\* AudioContexts the model lets mixAudio create (one per call, never closed)
MaxMixCalls == 2

\* const sampleRate = 24000 (audio.ts:111)
mixSampleRate == 24000

\* sample rates of the AudioContext that decodes the two inputs; decodeAudioData
\* resamples to it. Integer multiples of mixSampleRate, so that the playhead of
\* a buffer source falls on whole frames of the decoded buffer.
CtxRates == {24000, 48000}

SpeechSamples == {-FloatOne, FloatOne}
MusicSamples == {-FloatOne, FloatOne}
Volumes == {0, FloatOne \div 2, FloatOne}

SpeechBuffers == SeqsUpTo(SpeechSamples, MaxSpeechFrames) \ {<<>>}
MusicBuffers == SeqsUpTo(MusicSamples, MaxMusicFrames) \ {<<>>}

NoMix == [pc |-> "idle", vol |-> 0, ctxRate |-> 0, speech |-> <<>>, music |-> <<>>,
          data |-> <<>>, pcm |-> <<>>, blob |-> NoBlob, error |-> "none"]

\* mutant: the length rounded to the nearest frame
renderLengthRounded(frames, ctxRate) ==
    (2 * mixSampleRate * frames + ctxRate) \div (2 * ctxRate)

\* new OfflineAudioContext(1, sampleRate * duration, sampleRate), audio.ts:110-114:
\* duration = frames / ctxRate, and the `unsigned long length` argument is
\* converted by truncation
renderLength(frames, ctxRate) == TruncDiv(mixSampleRate * frames, ctxRate)

\* frames a buffer source advances per output frame: buffer rate / context rate
playRatio(ctxRate) == ctxRate \div mixSampleRate

\* speechSource: plays once from frame 0, silent after its end (audio.ts:117-120)
speechAt(speech, pos) == IF pos < Len(speech) THEN speech[pos + 1] ELSE 0

\* mutant: loop left false, the music silent after its end
musicAtOnce(music, pos) == IF pos < Len(music) THEN music[pos + 1] ELSE 0

\* musicSource with loop = true: the playhead wraps to the start (audio.ts:123-125)
musicAt(music, pos) == music[(pos % Len(music)) + 1]

\* mutant: the music connected straight to the destination, at gain 1
gainUnity(vol, x) == x

\* musicGain: gain.value = musicVolume (audio.ts:127-128)
gainOf(vol, x) == TruncDiv(vol * x, FloatOne)

\* offlineCtx.startRendering(): both paths summed at the destination (audio.ts:119-134)
renderMix(speech, music, vol, ctxRate) ==
    [k \in 1..renderLength(Len(speech), ctxRate) |->
        speechAt(speech, (k - 1) * playRatio(ctxRate))
      + gainOf(vol, musicAt(music, (k - 1) * playRatio(ctxRate)))]

\* mutant: the container declaring the rate and channels of a stereo 48000 Hz input
mixWrapNative(pcm) ==
    Blob(addWavHeader(Int16Bytes(pcm), 2 * mixSampleRate, 2), "audio/wav")

\* audio.ts:146-147: the rendered channel wrapped at 24000 Hz, mono
mixWrap(pcm) ==
    Blob(addWavHeader(Int16Bytes(pcm), mixSampleRate, 1), "audio/wav")

\* mutant: the error caught inside mixAudio, the call resolving without a mix
mixFallsBack(m, err) ==
    [m EXCEPT !.pc = "done", !.error = err, !.blob = Blob(<<>>, "audio/wav")]

\* a rejected await: the async function rejects with the error, nothing is returned
mixRejects(m, err) == [m EXCEPT !.pc = "failed", !.error = err, !.blob = NoBlob]

\* the call suspended at its first await, audio.ts:103-106
mixStarted(vol, ctxRate) ==
    [NoMix EXCEPT !.pc = "decodeSpeech", !.vol = vol, !.ctxRate = ctxRate]

MixIdle == mix.pc \in {"idle", "done", "failed"}

\* audio.ts:103-106, up to the first await; the AudioContext is created here
MixStart(vol, ctxRate) ==
    /\ MixIdle
    /\ openCtx < MaxMixCalls
    /\ mix' = mixStarted(vol, ctxRate)
    /\ openCtx' = openCtx + 1
    /\ UNCHANGED <<lamejs, wav, wavBlob, synth, lastOut, synthLog, b64, tts, synthB, svc,
                   video, rec, app>>

\* audio.ts:106 resolves, 107 awaits
MixSpeechDecoded(frames) ==
    /\ mix.pc = "decodeSpeech"
    /\ mix' = [mix EXCEPT !.pc = "decodeMusic", !.speech = frames]
    /\ UNCHANGED <<lamejs, wav, wavBlob, openCtx, synth, lastOut, synthLog, b64, tts, synthB,
                   svc, video, rec, app>>

\* audio.ts:106 rejects
MixSpeechUndecodable ==
    /\ mix.pc = "decodeSpeech"
    /\ mix' = mixRejects(mix, "EncodingError")
    /\ UNCHANGED <<lamejs, wav, wavBlob, openCtx, synth, lastOut, synthLog, b64, tts, synthB,
                   svc, video, rec, app>>

\* audio.ts:107 resolves; 110-134 run up to the await of startRendering.
\* An OfflineAudioContext of length 0 throws NotSupportedError.
MixMusicDecoded(frames) ==
    /\ mix.pc = "decodeMusic"
    /\ mix' = IF renderLength(Len(mix.speech), mix.ctxRate) = 0
              THEN mixRejects([mix EXCEPT !.music = frames], "NotSupportedError")
              ELSE [mix EXCEPT !.pc = "render", !.music = frames]
    /\ UNCHANGED <<lamejs, wav, wavBlob, openCtx, synth, lastOut, synthLog, b64, tts, synthB,
                   svc, video, rec, app>>

\* audio.ts:107 rejects
MixMusicUndecodable ==
    /\ mix.pc = "decodeMusic"
    /\ mix' = mixRejects(mix, "EncodingError")
    /\ UNCHANGED <<lamejs, wav, wavBlob, openCtx, synth, lastOut, synthLog, b64, tts, synthB,
                   svc, video, rec, app>>

\* audio.ts:134 resolves; 137-147 quantize, wrap and return
MixRendered ==
    /\ mix.pc = "render"
    /\ LET data == renderMix(mix.speech, mix.music, mix.vol, mix.ctxRate)
           pcm  == [i \in 1..Len(data) |-> mixFloatTo16(data[i])]
       IN  mix' = [mix EXCEPT !.pc = "done", !.data = data, !.pcm = pcm,
                     !.blob = mixWrap(pcm)]
    /\ UNCHANGED <<lamejs, wav, wavBlob, openCtx, synth, lastOut, synthLog, b64, tts, synthB,
                   svc, video, rec, app>>

\* audio.ts:134 rejects
MixRenderFails ==
    /\ mix.pc = "render"
    /\ mix' = mixRejects(mix, "RenderError")
    /\ UNCHANGED <<lamejs, wav, wavBlob, openCtx, synth, lastOut, synthLog, b64, tts, synthB,
                   svc, video, rec, app>>

----------------------------------------------------------------------------
(* generateSynthesizedTrack, audio.ts:154-251 *)

\* const sampleRate = 44100; const duration = 10 (audio.ts:155-156)
synthSampleRate == 44100
synthDuration == 10

\* frames the source renders: new OfflineAudioContext(2, sampleRate * duration, _)
synthLength == synthSampleRate * synthDuration

\* frames of the render that the model carries, out of synthLength
SynthFrames == 2

\* calls of generateSynthesizedTrack in one behaviour
MaxSynthCalls == 3

Presets == {"ambient", "upbeat", "lofi"}

\* values of Math.random() * 2 - 1, in [-1, 1)
Whites == {-FloatOne, FloatOne - 51}

\* The oscillators are the Web Audio collaborator's: deterministic waveforms
\* that start at phase 0. The frames the model carries are a quarter period of
\* the first oscillator apart, so that they meet its peaks.
sineWave(k) == <<0, FloatOne, 0, -FloatOne>>[(k % 4) + 1]
squareWave(k) == <<FloatOne, FloatOne, -FloatOne, -FloatOne>>[(k % 4) + 1]
\* the 164.81 Hz triangle advances 3/8 of its period per frame
triangleWave(k) ==
    <<0, FloatOne \div 2, FloatOne, FloatOne \div 2,
      0, -(FloatOne \div 2), -FloatOne, -(FloatOne \div 2)>>[((3 * k) % 8) + 1]

\* one step of the noise filter, audio.ts:187: (lastOut + 0.02 * white) / 1.02
filterStep(prev, white) == TruncDiv(50 * prev + white, 51)

RECURSIVE filterRun(_, _)
\* the values lastOut takes over the loop of audio.ts:185-190, from prev
filterRun(prev, whites) ==
    IF whites = <<>> THEN <<>>
    ELSE LET v == filterStep(prev, Head(whites))
         IN  <<v>> \o filterRun(v, Tail(whites))

\* data[i] *= 0.05 (audio.ts:189)
crackle(v) == TruncDiv(v * 5, 100)

\* the value of lastOut the lofi loop starts from (audio.ts:187, first iteration)
lofiStart == lastOut

\* mutant: master gain 0.5 in place of 0.15
masterGainLoud(x) == TruncDiv(x * 50, 100)

\* gain.gain.value = 0.1 (audio.ts:172)
ambientGain(x) == TruncDiv(x * 10, 100)
\* master.gain.value = 0.15 (audio.ts:207)
masterGain(x) == TruncDiv(x * 15, 100)
\* gain.gain.value = 0.05 (audio.ts:218)
upbeatGain(x) == TruncDiv(x * 5, 100)

\* mutant: the filter state of the lofi branch leaking into the ambient render
renderAmbientDrift(k) == ambientGain(sineWave(k) + triangleWave(k)) + crackle(lastOut)

\* channel 0 of the rendered buffer, frame k (0-based), audio.ts:161-232
renderAmbient(k) == ambientGain(sineWave(k) + triangleWave(k))
renderLofi(noise, k) == noise[k + 1] + masterGain(sineWave(k))
renderUpbeat(k) == upbeatGain(squareWave(k))

\* Float32 -> Int16 of generateSynthesizedTrack, audio.ts:243-244
synthFloatTo16(x) ==
    LET s == Max(-FloatOne, Min(FloatOne, x))
    IN  ToInt16(IF s < 0 THEN TruncDiv(s * 32768, FloatOne)
                         ELSE TruncDiv(s * 32767, FloatOne))

\* mutant: the container declaring the two channels of the render
synthWrapStereo(pcm) ==
    Blob(addWavHeader(Int16Bytes(pcm), synthSampleRate, 2), "audio/wav")

\* audio.ts:247-248: channel 0 wrapped at the render's rate, mono
synthWrap(pcm) ==
    Blob(addWavHeader(Int16Bytes(pcm), synthSampleRate, 1), "audio/wav")

\* const notes = [440, 554, 659, 880] (audio.ts:226)
notes == <<440, 554, 659, 880>>

\* mutant: the loop running to i <= duration * 4, and over three notes
upbeatScheduleLong ==
    [k \in 1..(synthDuration * 4 + 1) |->
        [freq |-> notes[((k - 1) % 3) + 1], atMs |-> (k - 1) * 250]]

\* the setValueAtTime calls of audio.ts:227-229, in the order made; the k-th
\* call has i = k - 1, and the time now + i * 0.25 s is in milliseconds
upbeatSchedule ==
    [k \in 1..(synthDuration * 4) |->
        [freq |-> notes[((k - 1) % 4) + 1], atMs |-> (k - 1) * 250]]

NoSynth == [pc |-> "idle", type |-> "none", schedule |-> <<>>,
            startOut |-> 0, whites |-> <<>>,
            noise |-> <<>>,
            data |-> <<>>, pcm |-> <<>>, blob |-> NoBlob, error |-> "none"]

NoLog == [p \in Presets |-> [n |-> 0, first |-> NoBlob]]

SynthIdle == synth.pc \in {"idle", "done", "failed"}

SynthCalls == synthLog["ambient"].n + synthLog["upbeat"].n + synthLog["lofi"].n

\* the call suspended at the await of startRendering (audio.ts:232): for lofi
\* the noise buffer was filled from the filter state `start` with the random
\* values `whites`; the other presets draw none
synthStarted(type, start, whites) ==
    IF type = "lofi"
    THEN LET run == filterRun(start, whites)
         IN  [NoSynth EXCEPT !.pc = "render", !.type = type, !.startOut = start,
                             !.whites = whites,
                             !.noise = [i \in 1..Len(run) |-> crackle(run[i])]]
    ELSE IF type = "upbeat"
    THEN [NoSynth EXCEPT !.pc = "render", !.type = type, !.schedule = upbeatSchedule]
    ELSE [NoSynth EXCEPT !.pc = "render", !.type = type]

\* the value the call suspended as s leaves in lastOut (audio.ts:188)
lastOutAfter(s) ==
    IF s.type = "lofi"
    THEN LET run == filterRun(s.startOut, s.whites) IN run[Len(run)]
    ELSE lastOut

\* the call resumed after the render: channel 0 quantized and wrapped
\* (audio.ts:235-248)
synthReturned(s) ==
    LET data == [i \in 1..SynthFrames |->
                   CASE s.type = "ambient" -> renderAmbient(i - 1)
                     [] s.type = "lofi"    -> renderLofi(s.noise, i - 1)
                     [] OTHER              -> renderUpbeat(i - 1)]
        pcm  == [i \in 1..Len(data) |-> synthFloatTo16(data[i])]
    IN  [s EXCEPT !.pc = "done", !.data = data, !.pcm = pcm, !.blob = synthWrap(pcm)]

\* audio.ts:155-232, up to the await of startRendering: the graph is built and,
\* for lofi, the noise buffer is filled, which moves lastOut
SynthStart(type, whites) ==
    /\ SynthIdle
    /\ SynthCalls < MaxSynthCalls
    /\ synth' = synthStarted(type, lofiStart, whites)
    /\ lastOut' = lastOutAfter(synth')
    /\ synthLog' = [synthLog EXCEPT ![type].n = @ + 1]
    /\ UNCHANGED <<lamejs, wav, wavBlob, mix, openCtx, b64, tts, synthB, svc, video, rec, app>>

\* audio.ts:232 resolves; 235-248 quantize channel 0, wrap and return
SynthRendered ==
    /\ synth.pc = "render"
    /\ synth' = synthReturned(synth)
    /\ synthLog' = IF synthLog[synth.type].first = NoBlob
                   THEN [synthLog EXCEPT ![synth.type].first = synth'.blob]
                   ELSE synthLog
    /\ UNCHANGED <<lamejs, wav, wavBlob, mix, openCtx, lastOut, b64, tts, synthB, svc, video,
                   rec, app>>

\* a second call of generateSynthesizedTrack, entered while the first awaits
\* its render
SynthStartB(type, whites) ==
    /\ synth.pc = "render"
    /\ synthB.pc = "idle"
    /\ synthB' = synthStarted(type, lofiStart, whites)
    /\ lastOut' = lastOutAfter(synthB')
    /\ UNCHANGED <<lamejs, wav, wavBlob, mix, openCtx, synth, synthLog, b64, tts, svc, video,
                   rec, app>>

\* the second call's render resolves
SynthRenderedB ==
    /\ synthB.pc = "render"
    /\ synthB' = synthReturned(synthB)
    /\ UNCHANGED <<lamejs, wav, wavBlob, mix, openCtx, synth, lastOut, synthLog, b64, tts,
                   svc, video, rec, app>>

\* audio.ts:232 rejects: the async function rejects, nothing is returned
SynthRenderFails ==
    /\ synth.pc = "render"
    /\ synth' = [synth EXCEPT !.pc = "failed", !.error = "RenderError", !.blob = NoBlob]
    /\ UNCHANGED <<lamejs, wav, wavBlob, mix, openCtx, lastOut, synthLog, b64, tts, synthB,
                   svc, video, rec, app>>

----------------------------------------------------------------------------
(* base64ToUint8Array, audio.ts:4-12 *)

\* characters of the transport strings: three of the base64 alphabet
\* (A = 0, Q = 16, / = 63), the padding, a space, and one character outside
B64Chars == {"A", "Q", "/", "=", " ", "!"}

\* longest transport string
MaxB64Len == 4

B64Alphabet == {"A", "Q", "/"}

sextetOf(c) == CASE c = "A" -> 0 [] c = "Q" -> 16 [] c = "/" -> 63 [] OTHER -> 0

\* atob, step 1: ASCII whitespace is removed
atobStrip(text) == SelectSeq(text, LAMBDA c : c # " ")

\* mutant: only one trailing '=' removed
atobUnpadOne(s) ==
    IF Len(s) % 4 = 0 /\ Len(s) >= 1 /\ s[Len(s)] = "=" THEN SubSeq(s, 1, Len(s) - 1) ELSE s

\* atob, step 2: when the length is a multiple of 4, one or two trailing '='
\* are removed
atobUnpad(s) ==
    IF Len(s) % 4 # 0 THEN s
    ELSE IF Len(s) >= 2 /\ s[Len(s)] = "=" /\ s[Len(s) - 1] = "="
         THEN SubSeq(s, 1, Len(s) - 2)
    ELSE IF Len(s) >= 1 /\ s[Len(s)] = "="
         THEN SubSeq(s, 1, Len(s) - 1)
    ELSE s

\* atob, steps 3-4: a length of 1 modulo 4, or a character outside the
\* alphabet, throws InvalidCharacterError
atobThrows(text) ==
    LET d == atobUnpad(atobStrip(text))
    IN  \/ Len(d) % 4 = 1
        \/ \E i \in 1..Len(d) : d[i] \notin B64Alphabet

\* atob, step 5: each 4 characters give 3 bytes; 2 or 3 characters left over
\* give 1 or 2 bytes, the spare bits dropped. The result is binaryString, one
\* char code per byte.
atobDecode(text) ==
    LET d == atobUnpad(atobStrip(text))
        six(i) == IF i <= Len(d) THEN sextetOf(d[i]) ELSE 0
    IN  [j \in 1..((Len(d) * 6) \div 8) |->
            LET g == 4 * ((j - 1) \div 3)
            IN  CASE (j - 1) % 3 = 0 -> six(g + 1) * 4 + six(g + 2) \div 16
                  [] (j - 1) % 3 = 1 -> (six(g + 2) % 16) * 16 + six(g + 3) \div 4
                  [] OTHER           -> (six(g + 3) % 4) * 64 + six(g + 4)]

\* audio.ts:5-11: bytes[i] = binaryString.charCodeAt(i) into a new Uint8Array
base64ToUint8Array(text) == [i \in 1..Len(atobDecode(text)) |-> atobDecode(text)[i] % 256]

NoB64 == [status |-> "none", text |-> <<>>, bytes |-> <<>>]

B64Texts == SeqsUpTo(B64Chars, MaxB64Len)

\* one call of base64ToUint8Array; the function keeps no state between calls,
\* so a behaviour makes one call
Base64ToUint8Array(text) ==
    /\ b64.status = "none"
    /\ b64' = IF atobThrows(text)
              THEN [status |-> "InvalidCharacterError", text |-> text, bytes |-> <<>>]
              ELSE [status |-> "ok", text |-> text, bytes |-> base64ToUint8Array(text)]
    /\ UNCHANGED <<lamejs, wav, wavBlob, mix, openCtx, synth, lastOut, synthLog, tts, synthB,
                   svc, video, rec, app>>

----------------------------------------------------------------------------
(* generateSpeech, gemini.ts:29-62, and processTTS, App.tsx:189-216 *)

\* values of response...inlineData.data: absent, two base64 strings, and one
\* that atob rejects
TtsAudio == {<<>>, <<"A", "A", "A", "A">>, <<"/", "/", "/", "/">>, <<"!">>}

\* gemini.ts:46-48 throws on absent audio, 51 on what atob rejects; the catch
\* of 59-61 rethrows through handleGeminiError
speechThrows(audio) == audio = <<>> \/ atobThrows(audio)

\* gemini.ts:51-57: { blobUrl, pcmData }, the URL standing for its blob
speechResult(audio) ==
    LET pcmData == base64ToUint8Array(audio)
    IN  [blobUrl |-> Blob(addWavHeader(pcmData, ttsSampleRate, 1), "audio/wav"),
         pcmData |-> pcmData]

NoTts == [pc |-> "idle", music |-> FALSE, vol |-> 0, speech |-> NoBlob, pcm |-> <<>>,
          blobUrl |-> NoBlob, hasPcm |-> FALSE, pcmData |-> <<>>, mixCalls |-> 0,
          error |-> "none"]

TtsIdle == tts.pc \in {"idle", "done", "failed"}

\* mutant: the catch of App.tsx:202 rethrowing
ttsRethrows(t) == [t EXCEPT !.pc = "failed", !.error = "MixError"]

\* App.tsx:192-193 and 202-215: finalBlobUrl and finalPcm keep the values of
\* the speech when the mix was skipped or its error was caught
ttsSpeechOnly(t) ==
    [t EXCEPT !.pc = "done", !.blobUrl = t.speech, !.hasPcm = TRUE, !.pcmData = t.pcm]

\* App.tsx:200-201 and 206-215: the mixed blob, pcmData undefined
ttsMixed(t, mixedBlob) ==
    [t EXCEPT !.pc = "done", !.blobUrl = mixedBlob, !.hasPcm = FALSE, !.pcmData = <<>>]

\* App.tsx:189-191: processTTS called with the musicFile and musicVolume of
\* the render, awaiting generateSpeech
TtsStart(music, vol) ==
    /\ TtsIdle
    /\ MixIdle
    /\ music => openCtx < MaxMixCalls
    /\ tts' = [NoTts EXCEPT !.pc = "speech", !.music = music, !.vol = vol]
    /\ UNCHANGED <<lamejs, wav, wavBlob, mix, openCtx, synth, lastOut, synthLog, b64, synthB,
                   svc, video, rec, app>>

\* gemini.ts:32-57 settles; App.tsx:192-198 run up to the await of fetch, or
\* 206-215 return when no music file is set
TtsSpeechSettled(audio) ==
    /\ tts.pc = "speech"
    /\ tts' = IF speechThrows(audio)
              THEN [tts EXCEPT !.pc = "failed", !.error = "ApiError"]
              ELSE LET r == speechResult(audio)
                       t == [tts EXCEPT !.speech = r.blobUrl, !.pcm = r.pcmData]
                   IN  IF tts.music THEN [t EXCEPT !.pc = "fetch"] ELSE ttsSpeechOnly(t)
    /\ UNCHANGED <<lamejs, wav, wavBlob, mix, openCtx, synth, lastOut, synthLog, b64, synthB,
                   svc, video, rec, app>>

\* gemini.ts:33 rejects: generateSpeech, and with it processTTS, rejects
TtsSpeechRejected ==
    /\ tts.pc = "speech"
    /\ tts' = [tts EXCEPT !.pc = "failed", !.error = "ApiError"]
    /\ UNCHANGED <<lamejs, wav, wavBlob, mix, openCtx, synth, lastOut, synthLog, b64, synthB,
                   svc, video, rec, app>>

\* App.tsx:198 resolves and 199 calls mixAudio, which runs to its first await
TtsFetched(ctxRate) ==
    /\ tts.pc = "fetch"
    /\ tts' = [tts EXCEPT !.pc = "mix", !.mixCalls = @ + 1]
    /\ mix' = mixStarted(tts.vol, ctxRate)
    /\ openCtx' = openCtx + 1
    /\ UNCHANGED <<lamejs, wav, wavBlob, synth, lastOut, synthLog, b64, synthB, svc, video,
                   rec, app>>

\* App.tsx:198 rejects inside the try
TtsFetchFails ==
    /\ tts.pc = "fetch"
    /\ tts' = ttsSpeechOnly(tts)
    /\ UNCHANGED <<lamejs, wav, wavBlob, mix, openCtx, synth, lastOut, synthLog, b64, synthB,
                   svc, video, rec, app>>

\* App.tsx:199 settles: 200-201 on a mixed blob, the catch of 202-204 otherwise;
\* the settled call is consumed
TtsMixSettled ==
    /\ tts.pc = "mix"
    /\ mix.pc \in {"done", "failed"}
    /\ tts' = IF mix.pc = "done" THEN ttsMixed(tts, mix.blob) ELSE ttsSpeechOnly(tts)
    /\ mix' = NoMix
    /\ UNCHANGED <<lamejs, wav, wavBlob, openCtx, synth, lastOut, synthLog, b64, synthB, svc,
                   video, rec, app>>


----------------------------------------------------------------------------
(* The service functions and their error handler (src/services/gemini.ts) *)

\* the substrings handleGeminiError looks for (gemini.ts:13-22); a message is
\* modelled by the set of these substrings that it contains
Substrings ==
    {"429", "quota", "401", "403", "API key", "404", "not found", "503", "overloaded"}

ErrorMsgs == SUBSET Substrings

\* what a try block can throw: an object with a non-empty `message` (its
\* toString repeats the message), or one without, of which toString is all
\* there is
Errors ==
    {[hasMessage |-> TRUE, message |-> m, string |-> m] : m \in ErrorMsgs}
        \cup {[hasMessage |-> FALSE, message |-> {}, string |-> s] : s \in ErrorMsgs}

\* new Error("No audio data returned from Gemini API") and the exception of
\* atob: messages with none of the substrings
PlainError == [hasMessage |-> TRUE, message |-> {}, string |-> {}]

\* msg.includes(a) || msg.includes(b)
includes(msg, subs) == msg \cap subs # {}

\* a throw statement / a normal return of the handler
throw(message) == [threw |-> TRUE, error |-> message]

\* mutant: the not-found test made before the API key test
handleGeminiErrorReordered(error) ==
    LET msg == IF error.hasMessage THEN error.message ELSE error.string
    IN  IF includes(msg, {"429", "quota"}) THEN throw("Quota exceeded")
        ELSE IF includes(msg, {"404", "not found"})
             THEN throw("Model or Resource not found. (404)")
        ELSE IF includes(msg, {"401", "403", "API key"}) THEN throw("API Key Error")
        ELSE IF includes(msg, {"503", "overloaded"}) THEN throw("Service overloaded")
        ELSE throw("API Error")

\* gemini.ts:9-27: msg = error.message || error.toString(), then the four tests
\* in order, each throwing, and the final throw
handleGeminiError(error) ==
    LET msg == IF error.hasMessage THEN error.message ELSE error.string
    IN  IF includes(msg, {"429", "quota"}) THEN throw("Quota exceeded")
        ELSE IF includes(msg, {"401", "403", "API key"}) THEN throw("API Key Error")
        ELSE IF includes(msg, {"404", "not found"})
             THEN throw("Model or Resource not found. (404)")
        ELSE IF includes(msg, {"503", "overloaded"}) THEN throw("Service overloaded")
        ELSE throw("API Error")

ServiceFns == {"generateSpeech", "generateScript", "translateText", "transcribeAudio"}

\* what generateContent can resolve with: a response with text or audio, one
\* with neither, one whose audio atob rejects
Responses == {"content", "empty", "undecodable"}

NoSvc == [pc |-> "idle", fn |-> "none", caught |-> PlainError, value |-> "none",
          thrown |-> "none"]

SvcIdle == svc.pc \in {"idle", "resolved", "rejected"}

\* `catch (error) { handleGeminiError(error); }` (gemini.ts:59-61, 82-84,
\* 101-103, 207-209): the async function rejects with what the handler throws,
\* and were the handler to return, would fall off its end and resolve undefined
svcCatch(s, error) ==
    LET h == handleGeminiError(error)
    IN  IF h.threw
        THEN [s EXCEPT !.pc = "rejected", !.caught = error, !.thrown = h.error]
        ELSE [s EXCEPT !.pc = "resolved", !.caught = error, !.value = "undefined"]

\* gemini.ts:45-58 for generateSpeech; `return response.text || ""` (81, 100,
\* 206) for the others
svcReturn(s, response) ==
    IF s.fn = "generateSpeech"
    THEN IF response = "content"
         THEN [s EXCEPT !.pc = "resolved", !.value = "speech"]
         ELSE svcCatch(s, PlainError)
    ELSE [s EXCEPT !.pc = "resolved",
                   !.value = IF response = "content" THEN "text" ELSE ""]

\* a service function is called and awaits generateContent
SvcCall(fn) ==
    /\ SvcIdle
    /\ svc' = [NoSvc EXCEPT !.pc = "awaiting", !.fn = fn]
    /\ UNCHANGED <<lamejs, wav, wavBlob, mix, openCtx, synth, lastOut, synthLog, b64, tts,
                   synthB, video, rec, app>>

\* generateContent resolves
SvcResponds(response) ==
    /\ svc.pc = "awaiting"
    /\ svc' = svcReturn(svc, response)
    /\ UNCHANGED <<lamejs, wav, wavBlob, mix, openCtx, synth, lastOut, synthLog, b64, tts,
                   synthB, video, rec, app>>

\* generateContent (or, in transcribeAudio, blobToBase64) rejects
SvcFails(error) ==
    /\ svc.pc = "awaiting"
    /\ svc' = svcCatch(svc, error)
    /\ UNCHANGED <<lamejs, wav, wavBlob, mix, openCtx, synth, lastOut, synthLog, b64, tts,
                   synthB, video, rec, app>>

----------------------------------------------------------------------------
(* generateVideo (src/services/gemini.ts:213-261) *)

\* the substrings the catch of generateVideo and handleGeminiError look for in
\* a message; "Requested entity was not found" contains "not found"
VideoSubstrings == {"Requested entity was not found", "404", "not found", "429", "403"}

VideoMsgs ==
    {m \in SUBSET VideoSubstrings :
        "Requested entity was not found" \in m => "not found" \in m}

\* HTTP status values carried by an error object or a download response
Statuses == {0, 200, 403, 404}

\* what the try block of generateVideo can throw: message (or none), the
\* status and code properties (0: absent), and whether JSON.stringify(error)
\* contains "Requested entity was not found"
VideoErrors ==
    [hasMessage : {TRUE}, message : VideoMsgs, string : {{}},
     status : {0, 404}, code : {0, 404}, json : BOOLEAN]
        \cup [hasMessage : {FALSE}, message : {{}}, string : {{}, {"404"}, {"not found"}},
              status : {0, 404}, code : {0, 404}, json : BOOLEAN]

\* new Error("No video URI returned") (gemini.ts:238)
NoUriError ==
    [hasMessage |-> TRUE, message |-> {}, string |-> {}, status |-> 0, code |-> 0,
     json |-> FALSE]

\* the operation as generateVideos / getVideosOperation report it: done or not,
\* and, when done, with a video uri or without
Operations ==
    {[done |-> FALSE, uri |-> FALSE], [done |-> TRUE, uri |-> FALSE],
     [done |-> TRUE, uri |-> TRUE]}

\* gemini.ts:249-254
isNotFound(error) ==
    \/ error.hasMessage /\ "Requested entity was not found" \in error.message
    \/ error.hasMessage /\ "404" \in error.message
    \/ error.status = 404
    \/ error.code = 404
    \/ error.json

NoVideo == [pc |-> "idle", polled |-> FALSE, sawDone |-> FALSE, uri |-> FALSE,
            http |-> 0, caught |-> NoUriError, thrown |-> "none", value |-> "none"]

VideoIdle == video.pc \in {"idle", "resolved", "rejected"}

\* gemini.ts:245-260: the catch block
videoCatch(v, error) ==
    IF isNotFound(error)
    THEN [v EXCEPT !.pc = "rejected", !.caught = error,
                   !.thrown = "API Key Error: Please re-select your paid API key."]
    ELSE LET h == handleGeminiError(error)
         IN  IF h.threw
             THEN [v EXCEPT !.pc = "rejected", !.caught = error, !.thrown = h.error]
             ELSE [v EXCEPT !.pc = "resolved", !.caught = error, !.value = "undefined"]

\* gemini.ts:231 and 237-238 on the operation just received: loop again, or
\* leave the loop and read the uri
videoOperation(v, op) ==
    IF ~op.done
    THEN [v EXCEPT !.pc = "sleeping"]
    ELSE IF ~op.uri
         THEN videoCatch([v EXCEPT !.sawDone = TRUE], NoUriError)
         ELSE [v EXCEPT !.pc = "fetching", !.sawDone = TRUE, !.uri = TRUE]

\* generateVideo is called and awaits generateVideos (gemini.ts:219)
VideoCall ==
    /\ VideoIdle
    /\ video' = [NoVideo EXCEPT !.pc = "starting"]
    /\ UNCHANGED <<lamejs, wav, wavBlob, mix, openCtx, synth, lastOut, synthLog, b64, tts,
                   synthB, svc, rec, app>>

\* generateVideos resolves with the operation
VideoStarted(op) ==
    /\ video.pc = "starting"
    /\ video' = videoOperation(video, op)
    /\ UNCHANGED <<lamejs, wav, wavBlob, mix, openCtx, synth, lastOut, synthLog, b64, tts,
                   synthB, svc, rec, app>>

\* the 5 s timer of gemini.ts:232 fires; getVideosOperation is awaited
VideoSlept ==
    /\ video.pc = "sleeping"
    /\ video' = [video EXCEPT !.pc = "polling"]
    /\ UNCHANGED <<lamejs, wav, wavBlob, mix, openCtx, synth, lastOut, synthLog, b64, tts,
                   synthB, svc, rec, app>>

\* getVideosOperation resolves (gemini.ts:233)
VideoPolled(op) ==
    /\ video.pc = "polling"
    /\ video' = videoOperation([video EXCEPT !.polled = TRUE], op)
    /\ UNCHANGED <<lamejs, wav, wavBlob, mix, openCtx, synth, lastOut, synthLog, b64, tts,
                   synthB, svc, rec, app>>

\* generateVideos, getVideosOperation, fetch or response.blob() rejects
VideoFails(error) ==
    /\ video.pc \in {"starting", "polling", "fetching", "reading"}
    /\ video' = videoCatch(video, error)
    /\ UNCHANGED <<lamejs, wav, wavBlob, mix, openCtx, synth, lastOut, synthLog, b64, tts,
                   synthB, svc, rec, app>>

\* fetch resolves (gemini.ts:241): it does so on every HTTP status, and the
\* status is not looked at
VideoFetched(status) ==
    /\ video.pc = "fetching"
    /\ status # 0
    /\ video' = [video EXCEPT !.pc = "reading", !.http = status]
    /\ UNCHANGED <<lamejs, wav, wavBlob, mix, openCtx, synth, lastOut, synthLog, b64, tts,
                   synthB, svc, rec, app>>

\* response.blob() resolves; the object URL of the body is returned (242-243)
VideoBlobRead ==
    /\ video.pc = "reading"
    /\ video' = [video EXCEPT !.pc = "resolved", !.value = "url"]
    /\ UNCHANGED <<lamejs, wav, wavBlob, mix, openCtx, synth, lastOut, synthLog, b64, tts,
                   synthB, svc, rec, app>>

----------------------------------------------------------------------------
(* The AudioRecorder component (src/components/AudioRecorder.tsx) *)

MaxRecorders == 3
MaxRecordingTime == 4

\* maxDuration: 0 stands for '' (no limit), the others are seconds typed into
\* the input, whose declared minimum is 1 (AudioRecorder.tsx:98-101)
NoMaxDuration == 0
MaxDurations == {NoMaxDuration, 1, 2, 3}

NoRec == [isRecording |-> FALSE, recordingTime |-> 0, maxDuration |-> NoMaxDuration,
          lastBlob |-> 0, pending |-> 0, recorders |-> <<>>, mediaRecorderRef |-> 0,
          intervals |-> {}, timerRef |-> 0, lastOp |-> "none", lastStop |-> "none"]

\* AudioRecorder.tsx:67-76: guarded by the ref and isRecording; stop() queues
\* the recorder's stop event, the interval of timerRef is cleared
stopRecording(r) ==
    IF r.mediaRecorderRef # 0 /\ r.isRecording
    THEN [r EXCEPT !.recorders[r.mediaRecorderRef].state = "stopping",
                   !.isRecording = FALSE,
                   !.intervals = @ \ {r.timerRef},
                   !.timerRef = 0]
    ELSE r

\* mutant: the auto-stop test made with > in place of >=
autoStopLate(r) ==
    r.isRecording /\ r.maxDuration # NoMaxDuration /\ r.recordingTime > r.maxDuration

\* AudioRecorder.tsx:25: the condition of the auto-stop effect
autoStop(r) ==
    r.isRecording /\ r.maxDuration # NoMaxDuration /\ r.recordingTime >= r.maxDuration

\* AudioRecorder.tsx:23-28: the effect that follows a render in which
\* recordingTime, isRecording or maxDuration changed
effect(r) ==
    IF autoStop(r) THEN [stopRecording(r) EXCEPT !.lastStop = "auto"] ELSE r

\* the start button is rendered while isRecording is false (109-119);
\* startRecording clears lastBlob and awaits getUserMedia (32-33)
RecStartClicked ==
    /\ ~rec.isRecording
    /\ rec.pending + Len(rec.recorders) < MaxRecorders
    /\ rec' = [rec EXCEPT !.pending = @ + 1, !.lastBlob = 0, !.lastOp = "start"]
    /\ UNCHANGED <<lamejs, wav, wavBlob, mix, openCtx, synth, lastOut, synthLog, b64, tts,
                   synthB, svc, video, app>>

\* getUserMedia resolves for one of the waiting invocations (34-59): a new
\* MediaRecorder and a new interval replace what the refs held
RecMicrophoneGranted ==
    /\ rec.pending > 0
    /\ LET id == Len(rec.recorders) + 1
       IN  rec' = effect([rec EXCEPT
                     !.pending = @ - 1,
                     !.recorders = Append(@, [state |-> "recording", completes |-> 0]),
                     !.mediaRecorderRef = id,
                     !.isRecording = TRUE,
                     !.recordingTime = 0,
                     !.intervals = @ \cup {id},
                     !.timerRef = id,
                     !.lastOp = "granted"])
    /\ UNCHANGED <<lamejs, wav, wavBlob, mix, openCtx, synth, lastOut, synthLog, b64, tts,
                   synthB, svc, video, app>>

\* getUserMedia rejects (61-64): the alert, nothing else
RecMicrophoneDenied ==
    /\ rec.pending > 0
    /\ rec' = [rec EXCEPT !.pending = @ - 1, !.lastOp = "denied"]
    /\ UNCHANGED <<lamejs, wav, wavBlob, mix, openCtx, synth, lastOut, synthLog, b64, tts,
                   synthB, svc, video, app>>

\* an interval fires (56-58), the component renders, the effect runs
RecTick(t) ==
    /\ t \in rec.intervals
    /\ rec.recordingTime < MaxRecordingTime
    /\ rec' = effect([rec EXCEPT !.recordingTime = @ + 1, !.lastOp = "tick"])
    /\ UNCHANGED <<lamejs, wav, wavBlob, mix, openCtx, synth, lastOut, synthLog, b64, tts,
                   synthB, svc, video, app>>

\* stopRecording is invoked (the stop button while recording; modelled also
\* for a call made while not recording)
RecStopClicked ==
    /\ rec' = [stopRecording(rec) EXCEPT
                  !.lastOp = "stop",
                  !.lastStop = IF rec.mediaRecorderRef # 0 /\ rec.isRecording
                               THEN "manual" ELSE @]
    /\ UNCHANGED <<lamejs, wav, wavBlob, mix, openCtx, synth, lastOut, synthLog, b64, tts,
                   synthB, svc, video, app>>

\* the stop event of a stopped recorder is delivered (43-50): lastBlob is
\* set and onRecordingComplete is called
RecOnStop(id) ==
    /\ id \in 1..Len(rec.recorders)
    /\ rec.recorders[id].state = "stopping"
    /\ rec' = [rec EXCEPT !.recorders[id] = [state |-> "inactive", completes |-> @.completes + 1],
                          !.lastBlob = id,
                          !.lastOp = "onstop"]
    /\ UNCHANGED <<lamejs, wav, wavBlob, mix, openCtx, synth, lastOut, synthLog, b64, tts,
                   synthB, svc, video, app>>

\* the duration input, rendered while isRecording is false (93-104)
RecSetMaxDuration(d) ==
    /\ ~rec.isRecording
    /\ d # rec.maxDuration
    /\ rec' = effect([rec EXCEPT !.maxDuration = d, !.lastOp = "max"])
    /\ UNCHANGED <<lamejs, wav, wavBlob, mix, openCtx, synth, lastOut, synthLog, b64, tts,
                   synthB, svc, video, app>>

----------------------------------------------------------------------------
(* The handlers of the App component (src/App.tsx) *)

MaxLines == 3
MaxResults == 40
MaxStarts == 2
MaxVideos == 2

\* the numbers of non-blank lines of a batch: the short ones, and one long
\* batch, of which the failing lines come before the first that succeeds
BatchTotals == (1..MaxLines) \cup {40}

\* A double is held as its 53 significand bits, cut into limbs q1 (19 bits),
\* q2 (18 bits) and q3 (16 bits), and the power of two `exp` of the last bit:
\* its value is (q1 * 2^34 + q2 * 2^16 + q3) * 2^exp.

\* the next double above
nextUp(d) ==
    IF d.q3 + 1 < 2^16 THEN [d EXCEPT !.q3 = @ + 1]
    ELSE IF d.q2 + 1 < 2^18 THEN [d EXCEPT !.q3 = 0, !.q2 = @ + 1]
    ELSE IF d.q1 + 1 < 2^19 THEN [d EXCEPT !.q3 = 0, !.q2 = 0, !.q1 = @ + 1]
    ELSE [q1 |-> 2^18, q2 |-> 0, q3 |-> 0, exp |-> d.exp + 1]

\* the least s with c * 2^s >= n, for 0 < c <= n
shiftOf(c, n) == CHOOSE s \in 0..12 : c * 2^s >= n /\ (s = 0 \/ c * 2^(s - 1) < n)

\* the double c / n, for 0 < c <= n: long division, 18, 18 and 16 bits at a
\* time, then round to nearest, ties to even
fdiv(c, n) ==
    LET s == shiftOf(c, n)
        a1 == (c * 2^s) * 2^18
        a2 == (a1 % n) * 2^18
        a3 == (a2 % n) * 2^16
        rem == a3 % n
        d == [q1 |-> a1 \div n, q2 |-> a2 \div n, q3 |-> a3 \div n, exp |-> -52 - s]
    IN  IF 2 * rem > n \/ (2 * rem = n /\ d.q3 % 2 = 1) THEN nextUp(d) ELSE d

\* the double d * k, for a natural number k < 2^12: the exact product limb by
\* limb, then the low bits dropped with round to nearest, ties to even
fmul(d, k) ==
    LET p3 == d.q3 * k
        p2 == d.q2 * k + (p3 \div 2^16)
        p1 == d.q1 * k + (p2 \div 2^18)
        l3 == p3 % 2^16
        l2 == p2 % 2^18
        drop == CHOOSE j \in 0..12 : p1 < 2^(19 + j) /\ (j = 0 \/ p1 >= 2^(18 + j))
        rest == l3 % 2^drop
        kept == [q1 |-> p1 \div 2^drop,
                 q2 |-> (l2 \div 2^drop) + (p1 % 2^drop) * 2^(18 - drop),
                 q3 |-> (l3 \div 2^drop) + (l2 % 2^drop) * 2^(16 - drop),
                 exp |-> d.exp + drop]
    IN  IF 2 * rest > 2^drop \/ (2 * rest = 2^drop /\ kept.q3 % 2 = 1)
        THEN nextUp(kept) ELSE kept

\* Math.round of a double between 0 and 2^19: the integer part, plus one when
\* the first fractional bit is set
mathRound(d) ==
    LET f == -d.exp - 34
    IN  IF f > 20 THEN 0
        ELSE (d.q1 \div 2^f) + ((d.q1 \div 2^(f - 1)) % 2)

\* Math.round((completed / lines.length) * 100) (App.tsx:259)
progressOf(completed, total) ==
    IF completed = 0 THEN 0 ELSE mathRound(fmul(fdiv(completed, total), 100))

NoBatch == [pc |-> "idle", total |-> 0, line |-> 0, completed |-> 0]

NoLast == [handler |-> "none", outcome |-> "none", n |-> 0]

\* the state of App.tsx:34-37 and 56-58, the text of the prompt, whether
\* window.aistudio is defined (unknown until a handler reads it), and the
\* position of every handler invocation; `last` names the handler that
\* returned last and how
NoApp == [isGenerating |-> FALSE, statusMessage |-> "", error |-> "null", progress |-> 0,
          audioResults |-> <<>>, videoResults |-> <<>>, text |-> "typed",
          aistudio |-> "unknown", generate |-> "idle", translate |-> "idle",
          script |-> "idle", batch |-> NoBatch,
          videos |-> [i \in 1..MaxVideos |-> "idle"], starts |-> 0, last |-> NoLast]

\* a handler returns (or its promise rejects)
returned(a, handler, outcome) ==
    [a EXCEPT !.last = [handler |-> handler, outcome |-> outcome, n |-> a.last.n + 1]]

\* the `finally` blocks of App.tsx:183-186, 232-236, 314-317, 411-414
finally(a) == [a EXCEPT !.isGenerating = FALSE, !.statusMessage = ""]

\* the Generate button is disabled while isGenerating (App.tsx:749-750), and
\* so are Translate (609) and the script writer's button (644)
ButtonEnabled == ~app.isGenerating /\ app.starts < MaxStarts

\* handleGenerateTTS up to its await (App.tsx:218-227)
HandleGenerateTTS ==
    /\ ButtonEnabled
    /\ Len(app.audioResults) < MaxResults
    /\ app.generate = "idle"
    /\ app' = [app EXCEPT !.isGenerating = TRUE, !.statusMessage = "Generating Speech...",
                          !.error = "null", !.progress = 0, !.generate = "awaiting",
                          !.starts = @ + 1]
    /\ UNCHANGED <<lamejs, wav, wavBlob, mix, openCtx, synth, lastOut, synthLog, b64, tts,
                   synthB, svc, video, rec>>

\* processTTS settles (App.tsx:227-236)
GenerateTTSSettled(ok) ==
    /\ app.generate = "awaiting"
    /\ app' = returned(
                [finally(IF ok
                         THEN [app EXCEPT !.audioResults = <<[type |-> "tts", line |-> 0]>> \o @]
                         ELSE [app EXCEPT !.error = "message"])
                   EXCEPT !.progress = 0, !.generate = "idle"],
                "handleGenerateTTS", IF ok THEN "ok" ELSE "failed")
    /\ UNCHANGED <<lamejs, wav, wavBlob, mix, openCtx, synth, lastOut, synthLog, b64, tts,
                   synthB, svc, video, rec>>

\* handleTranslate up to its await (App.tsx:166-174)
HandleTranslate ==
    /\ ButtonEnabled
    /\ app.translate = "idle"
    /\ app' = [app EXCEPT !.isGenerating = TRUE, !.statusMessage = "Translating...",
                          !.error = "null", !.translate = "awaiting", !.starts = @ + 1]
    /\ UNCHANGED <<lamejs, wav, wavBlob, mix, openCtx, synth, lastOut, synthLog, b64, tts,
                   synthB, svc, video, rec>>

\* translateText settles (App.tsx:175-186)
TranslateSettled(ok) ==
    /\ app.translate = "awaiting"
    /\ app' = returned(
                [finally(IF ok THEN [app EXCEPT !.text = "translated"]
                         ELSE [app EXCEPT !.error = "message"])
                   EXCEPT !.translate = "idle"],
                "handleTranslate", IF ok THEN "ok" ELSE "failed")
    /\ UNCHANGED <<lamejs, wav, wavBlob, mix, openCtx, synth, lastOut, synthLog, b64, tts,
                   synthB, svc, video, rec>>

\* handleGenerateScript up to its await (App.tsx:400-405)
HandleGenerateScript ==
    /\ ButtonEnabled
    /\ app.script = "idle"
    /\ app' = [app EXCEPT !.isGenerating = TRUE, !.statusMessage = "Writing Script...",
                          !.error = "null", !.script = "awaiting", !.starts = @ + 1]
    /\ UNCHANGED <<lamejs, wav, wavBlob, mix, openCtx, synth, lastOut, synthLog, b64, tts,
                   synthB, svc, video, rec>>

\* generateScript settles (App.tsx:405-414)
ScriptSettled(ok) ==
    /\ app.script = "awaiting"
    /\ app' = returned(
                [finally(IF ok THEN [app EXCEPT !.text = "script"]
                         ELSE [app EXCEPT !.error = "message"])
                   EXCEPT !.script = "idle"],
                "handleGenerateScript", IF ok THEN "ok" ELSE "failed")
    /\ UNCHANGED <<lamejs, wav, wavBlob, mix, openCtx, synth, lastOut, synthLog, b64, tts,
                   synthB, svc, video, rec>>

\* mutant: completed++ moved out of the try block
batchCompletedAlways(completed, ok) == completed + 1

\* App.tsx:252-257: completed++ follows the await inside the try block
batchCompleted(completed, ok) == IF ok THEN completed + 1 ELSE completed

\* handleBatchGenerate up to the await of its first line (App.tsx:239-253)
HandleBatchGenerate(total) ==
    /\ ButtonEnabled
    /\ Len(app.audioResults) + total <= MaxResults
    /\ app.batch.pc = "idle"
    /\ app' = [app EXCEPT !.isGenerating = TRUE, !.error = "null", !.progress = 0,
                          !.statusMessage = "Processing",
                          !.batch = [pc |-> "awaiting", total |-> total, line |-> 1,
                                     completed |-> 0],
                          !.starts = @ + 1]
    /\ UNCHANGED <<lamejs, wav, wavBlob, mix, openCtx, synth, lastOut, synthLog, b64, tts,
                   synthB, svc, video, rec>>

\* processTTS settles for the current line (App.tsx:253-261): the result is
\* prepended or the error logged, the progress set, the 500 ms delay awaited
BatchLineSettled(ok) ==
    /\ app.batch.pc = "awaiting"
    /\ app.batch.total <= MaxLines \/ ok \/ app.batch.completed = 0
    /\ LET completed == batchCompleted(app.batch.completed, ok)
       IN  app' = [app EXCEPT
                     !.audioResults =
                        IF ok THEN <<[type |-> "batch", line |-> app.batch.line]>> \o @
                        ELSE @,
                     !.batch.completed = completed,
                     !.batch.pc = "delay",
                     !.progress = progressOf(completed, app.batch.total)]
    /\ UNCHANGED <<lamejs, wav, wavBlob, mix, openCtx, synth, lastOut, synthLog, b64, tts,
                   synthB, svc, video, rec>>

\* the delay elapses (App.tsx:261, then 250-253 or 264-266): the next line is
\* started, or the loop is left and the handler returns
BatchDelayElapsed ==
    /\ app.batch.pc = "delay"
    /\ app' = IF app.batch.line < app.batch.total
              THEN [app EXCEPT !.statusMessage = "Processing",
                               !.batch.line = @ + 1, !.batch.pc = "awaiting"]
              ELSE returned([app EXCEPT !.isGenerating = FALSE, !.statusMessage = "",
                                        !.progress = 0, !.batch = NoBatch],
                            "handleBatchGenerate", "ok")
    /\ UNCHANGED <<lamejs, wav, wavBlob, mix, openCtx, synth, lastOut, synthLog, b64, tts,
                   synthB, svc, video, rec>>

\* what handleSpeechToVideo can catch: an error whose message contains
\* "API Key Error" (gemini.ts:17, 257), or any other
CaughtKinds == {"API Key Error", "other"}

\* App.tsx:306-317 for invocation i: the catch block and the finally block.
\* With window.aistudio undefined, line 309 throws inside the catch block.
speechToVideoCatch(a, i, kind) ==
    IF kind = "API Key Error"
    THEN IF a.aistudio = "defined"
         THEN [a EXCEPT !.videos[i] = "reselect"]
         ELSE returned([finally(a) EXCEPT !.videos[i] = "idle"],
                       "handleSpeechToVideo", "failed")
    ELSE returned([finally([a EXCEPT !.error = "message"]) EXCEPT !.videos[i] = "idle"],
                  "handleSpeechToVideo", "failed")

\* the Speech to Video button of the recorder (AudioRecorder.tsx:137-142) has
\* no disabled condition; handleSpeechToVideo up to its first await
\* (App.tsx:281-287)
HandleSpeechToVideo(i, host) ==
    /\ app.starts < MaxStarts
    /\ app.videos[i] = "idle"
    /\ \A j \in 1..(i - 1) : app.videos[j] # "idle"
    /\ app.aistudio \in {"unknown", host}
    /\ app' = [app EXCEPT !.isGenerating = TRUE, !.statusMessage = "Transcribing audio...",
                          !.error = "null", !.videos[i] = "transcribing",
                          !.aistudio = host, !.starts = @ + 1]
    /\ UNCHANGED <<lamejs, wav, wavBlob, mix, openCtx, synth, lastOut, synthLog, b64, tts,
                   synthB, svc, video, rec>>

\* transcribeAudio resolves (App.tsx:287-291): an empty transcript is thrown
\* as an error, as is the read of window.aistudio when it is undefined
SpeechTranscribed(i, empty) ==
    /\ app.videos[i] = "transcribing"
    /\ app' = IF empty \/ app.aistudio = "undefined"
              THEN speechToVideoCatch(app, i, "other")
              ELSE [app EXCEPT !.statusMessage = "Generating Video from speech...",
                               !.videos[i] = "hasSelectedApiKey"]
    /\ UNCHANGED <<lamejs, wav, wavBlob, mix, openCtx, synth, lastOut, synthLog, b64, tts,
                   synthB, svc, video, rec>>

\* hasSelectedApiKey resolves (App.tsx:291-294)
SpeechKeyChecked(i, hasKey) ==
    /\ app.videos[i] = "hasSelectedApiKey"
    /\ app' = [app EXCEPT !.videos[i] = IF hasKey THEN "generateVideo" ELSE "openSelectKey"]
    /\ UNCHANGED <<lamejs, wav, wavBlob, mix, openCtx, synth, lastOut, synthLog, b64, tts,
                   synthB, svc, video, rec>>

\* openSelectKey resolves (App.tsx:292-294)
SpeechKeySelected(i) ==
    /\ app.videos[i] = "openSelectKey"
    /\ app' = [app EXCEPT !.videos[i] = "generateVideo"]
    /\ UNCHANGED <<lamejs, wav, wavBlob, mix, openCtx, synth, lastOut, synthLog, b64, tts,
                   synthB, svc, video, rec>>

\* generateVideo resolves (App.tsx:294-304, 314-317)
SpeechVideoReady(i) ==
    /\ app.videos[i] = "generateVideo"
    /\ app' = returned([finally([app EXCEPT !.videoResults = <<i>> \o @])
                           EXCEPT !.videos[i] = "idle"],
                       "handleSpeechToVideo", "ok")
    /\ UNCHANGED <<lamejs, wav, wavBlob, mix, openCtx, synth, lastOut, synthLog, b64, tts,
                   synthB, svc, video, rec>>

\* transcribeAudio or generateVideo rejects (App.tsx:306-317)
SpeechFails(i, kind) ==
    /\ app.videos[i] \in {"transcribing", "generateVideo"}
    /\ app' = speechToVideoCatch(app, i, kind)
    /\ UNCHANGED <<lamejs, wav, wavBlob, mix, openCtx, synth, lastOut, synthLog, b64, tts,
                   synthB, svc, video, rec>>

\* the openSelectKey of the catch block resolves (App.tsx:309-310, 314-317)
SpeechKeyReselected(i) ==
    /\ app.videos[i] = "reselect"
    /\ app' = returned([finally([app EXCEPT !.error = "invalid key"])
                           EXCEPT !.videos[i] = "idle"],
                       "handleSpeechToVideo", "failed")
    /\ UNCHANGED <<lamejs, wav, wavBlob, mix, openCtx, synth, lastOut, synthLog, b64, tts,
                   synthB, svc, video, rec>>

----------------------------------------------------------------------------
(* Specifications *)

\* the state after the module is loaded: nothing called, lastOut = 0 (audio.ts:251)
Init ==
    /\ lamejs \in BOOLEAN
    /\ wav = NoWav
    /\ wavBlob = NoBlob
    /\ mix = NoMix
    /\ openCtx = 0
    /\ synth = NoSynth
    /\ lastOut = 0
    /\ synthLog = NoLog
    /\ b64 = NoB64
    /\ tts = NoTts
    /\ synthB = NoSynth
    /\ svc = NoSvc
    /\ video = NoVideo
    /\ rec = NoRec
    /\ app = NoApp

NextWav ==
    \/ \E pcm \in PcmInputs, rate \in SampleRates, ch \in ChannelCounts :
          AddWavHeader(pcm, rate, ch)
    \/ \E pcm \in PcmInputs, rate \in SampleRates, ch \in ChannelCounts,
          emits \in [1..MaxEncCalls -> EncoderReplies] :
          ConvertToMp3(pcm, rate, ch, emits)

NextMix ==
    \/ \E vol \in Volumes, rate \in CtxRates : MixStart(vol, rate)
    \/ \E frames \in SpeechBuffers : MixSpeechDecoded(frames)
    \/ MixSpeechUndecodable
    \/ \E frames \in MusicBuffers : MixMusicDecoded(frames)
    \/ MixMusicUndecodable
    \/ MixRendered
    \/ MixRenderFails

NextSynth ==
    \/ \E type \in Presets, whites \in [1..SynthFrames -> Whites] :
          SynthStart(type, whites)
    \/ SynthRendered
    \/ SynthRenderFails

\* the encoders alone
SpecWav == Init /\ [][NextWav]_vars

\* the mixing engine alone
SpecMix == Init /\ [][NextMix]_vars

\* the synthesizer alone
SpecSynth == Init /\ [][NextSynth]_vars

\* processTTS, with the steps of the mixAudio call it makes
NextTTS ==
    \/ \E music \in BOOLEAN, vol \in Volumes : TtsStart(music, vol)
    \/ \E audio \in TtsAudio : TtsSpeechSettled(audio)
    \/ TtsSpeechRejected
    \/ \E rate \in CtxRates : TtsFetched(rate)
    \/ TtsFetchFails
    \/ TtsMixSettled
    \/ \E frames \in SpeechBuffers : MixSpeechDecoded(frames)
    \/ MixSpeechUndecodable
    \/ \E frames \in MusicBuffers : MixMusicDecoded(frames)
    \/ MixMusicUndecodable
    \/ MixRendered
    \/ MixRenderFails

SpecTTS == Init /\ [][NextTTS]_vars

\* convertToMp3 on inputs of several blocks and addWavHeader on two seconds of
\* silence, one call in a behaviour
NextLong ==
    \/ /\ wav.op = "none"
       /\ \E n \in LongSampleCounts, ch \in ChannelCounts,
             emits \in [1..(MaxBlocks + 1) -> EncoderReplies] :
             ConvertToMp3(LongPcm(n), ttsSampleRate, ch, emits)
    \/ /\ wav.op = "none"
       /\ \E n \in LongSampleCounts : AddWavHeader(LongPcm(n), ttsSampleRate, 1)
    \/ /\ wav.op = "none"
       /\ AddWavHeader(Silence, ttsSampleRate, 1)

SpecLong == Init /\ [][NextLong]_vars

\* The core with one of its parts at work in a behaviour: the encoders, the
\* mixing engine or the synthesizer. The parts write disjoint variables, so a
\* behaviour of the whole core is an interleaving of behaviours of these.
NextCore ==
    \/ /\ mix = NoMix
       /\ synth = NoSynth
       /\ NextWav
    \/ /\ wav = NoWav
       /\ synth = NoSynth
       /\ NextMix
    \/ /\ wav = NoWav
       /\ mix = NoMix
       /\ NextSynth

SpecCore == Init /\ [][NextCore]_vars

\* two calls of generateSynthesizedTrack in flight together: the second is
\* entered while the first awaits its render, and the renders resolve in
\* either order
NextOverlap ==
    \/ /\ SynthCalls = 0
       /\ \E type \in Presets, whites \in [1..SynthFrames -> Whites] :
             SynthStart(type, whites)
    \/ \E type \in Presets, whites \in [1..SynthFrames -> Whites] :
          SynthStartB(type, whites)
    \/ SynthRendered
    \/ SynthRenderedB

SpecOverlap == Init /\ [][NextOverlap]_vars

NextB64 == \E text \in B64Texts : Base64ToUint8Array(text)

\* the transport decoder alone
SpecB64 == Init /\ [][NextB64]_vars

NextSvc ==
    \/ \E fn \in ServiceFns : SvcCall(fn)
    \/ \E response \in Responses : SvcResponds(response)
    \/ \E error \in Errors : SvcFails(error)

\* the service functions alone
SpecSvc == Init /\ [][NextSvc]_vars

NextVideo ==
    \/ VideoCall
    \/ \E op \in Operations : VideoStarted(op)
    \/ VideoSlept
    \/ \E op \in Operations : VideoPolled(op)
    \/ \E error \in VideoErrors : VideoFails(error)
    \/ \E status \in Statuses : VideoFetched(status)
    \/ VideoBlobRead

\* generateVideo alone
SpecVideo == Init /\ [][NextVideo]_vars

NextRec ==
    \/ RecStartClicked
    \/ RecMicrophoneGranted
    \/ RecMicrophoneDenied
    \/ \E t \in 1..MaxRecorders : RecTick(t)
    \/ RecStopClicked
    \/ \E id \in 1..MaxRecorders : RecOnStop(id)
    \/ \E d \in MaxDurations : RecSetMaxDuration(d)

\* the recorder component alone
SpecRec == Init /\ [][NextRec]_vars

NextBatch ==
    \/ \E total \in BatchTotals : HandleBatchGenerate(total)
    \/ \E ok \in BOOLEAN : BatchLineSettled(ok)
    \/ BatchDelayElapsed

\* handleBatchGenerate alone
SpecBatch == Init /\ [][NextBatch]_vars

NextApp ==
    \/ HandleGenerateTTS
    \/ \E ok \in BOOLEAN : GenerateTTSSettled(ok)
    \/ HandleTranslate
    \/ \E ok \in BOOLEAN : TranslateSettled(ok)
    \/ HandleGenerateScript
    \/ \E ok \in BOOLEAN : ScriptSettled(ok)
    \/ \E total \in 1..MaxLines : HandleBatchGenerate(total)
    \/ \E ok \in BOOLEAN : BatchLineSettled(ok)
    \/ BatchDelayElapsed
    \/ \E i \in 1..MaxVideos, host \in {"defined", "undefined"} : HandleSpeechToVideo(i, host)
    \/ \E i \in 1..MaxVideos, empty \in BOOLEAN : SpeechTranscribed(i, empty)
    \/ \E i \in 1..MaxVideos, hasKey \in BOOLEAN : SpeechKeyChecked(i, hasKey)
    \/ \E i \in 1..MaxVideos : SpeechKeySelected(i)
    \/ \E i \in 1..MaxVideos : SpeechVideoReady(i)
    \/ \E i \in 1..MaxVideos, kind \in CaughtKinds : SpeechFails(i, kind)
    \/ \E i \in 1..MaxVideos : SpeechKeyReselected(i)

\* the handlers of the App component, interleaved as the buttons allow
SpecApp == Init /\ [][NextApp]_vars

\* The whole program. The encoders write wav; the mixing engine and processTTS
\* write mix, openCtx and tts; the synthesizer's calls write synth, synthB,
\* lastOut and synthLog; the decoder writes b64. No group reads another's
\* variables, so a state predicate over one group's variables holds under Spec
\* exactly when it holds under that group's specification.
Next ==
    \/ NextWav
    \/ NextLong
    \/ NextMix
    \/ NextTTS
    \/ NextSynth
    \/ NextOverlap
    \/ NextB64
    \/ NextSvc
    \/ NextVideo
    \/ NextRec
    \/ NextApp

Spec == Init /\ [][Next]_vars

----------------------------------------------------------------------------
(* Claims about the encoders, checked under SpecWav *)

\* the 44 header bytes of a container
HeaderOf(bytes) == SubSeq(bytes, 1, 44)

\* the bytes of a container from offset 44 on
PayloadOf(bytes) == SubSeq(bytes, 45, Len(bytes))

\* C1: for a PCM buffer of N bytes addWavHeader returns exactly 44 + N bytes,
\* and the bytes from offset 44 on are the input bytes, in order.
C1_WavPayloadVerbatim ==
    wav.op = "addWavHeader" =>
        /\ Len(wavBlob.bytes) = 44 + Len(wav.pcm)
        /\ \A i \in 1..Len(wav.pcm) : wavBlob.bytes[44 + i] = wav.pcm[i]

\* a wrapped buffer of the longest input, whose bytes differ by position
C1_Witness ==
    /\ wav.op = "addWavHeader"
    /\ Len(wav.pcm) = MaxPcmLen
    /\ wav.pcm[1] # wav.pcm[2]

\* C2: the header written by addWavHeader holds, little-endian: 'RIFF' at 0,
\* 36+N at 4, 'WAVE' at 8, 'fmt ' at 12, 16 at 16, 1 at 20, the channel count at
\* 22, the sample rate at 24, sampleRate*channels*2 at 28, channels*2 at 32,
\* 16 at 34, 'data' at 36 and N at 40.
C2_WavHeaderFields ==
    wav.op = "addWavHeader" =>
        LET b == wavBlob.bytes
            N == Len(wav.pcm)
        IN  /\ SubSeq(b, 1, 4) = <<82, 73, 70, 70>>
            /\ getUint32(b, 4) = 36 + N
            /\ SubSeq(b, 9, 12) = <<87, 65, 86, 69>>
            /\ SubSeq(b, 13, 16) = <<102, 109, 116, 32>>
            /\ getUint32(b, 16) = 16
            /\ getUint16(b, 20) = 1
            /\ getUint16(b, 22) = wav.ch
            /\ getUint32(b, 24) = wav.rate
            /\ getUint32(b, 28) = wav.rate * wav.ch * 2
            /\ getUint16(b, 32) = wav.ch * 2
            /\ getUint16(b, 34) = 16
            /\ SubSeq(b, 37, 40) = <<100, 97, 116, 97>>
            /\ getUint32(b, 40) = N
            /\ \A i \in 1..Len(b) : b[i] \in 0..255

\* a stereo 44100 Hz header over a non-empty payload
C2_Witness ==
    /\ wav.op = "addWavHeader"
    /\ wav.rate = 44100
    /\ wav.ch = 2
    /\ Len(wav.pcm) = MaxPcmLen

\* C3: without lamejs, convertToMp3 does not fail: it returns a blob tagged
\* audio/wav whose bytes are addWavHeader(pcm, rate, channels) (a RIFF/WAVE
\* header, then the PCM bytes), and no encoder call is made.
C3_Mp3FallbackIsWav ==
    (wav.op = "convertToMp3" /\ ~lamejs) =>
        /\ wav.status = "ok"
        /\ wavBlob.type = "audio/wav"
        /\ wavBlob.bytes = addWavHeader(wav.pcm, wav.rate, wav.ch)
        /\ SubSeq(wavBlob.bytes, 1, 4) = <<82, 73, 70, 70>>
        /\ SubSeq(wavBlob.bytes, 9, 12) = <<87, 65, 86, 69>>
        /\ PayloadOf(wavBlob.bytes) = wav.pcm
        /\ wav.encCalls = <<>>

\* the fallback taken on an input of odd length, which the encoder branch rejects
C3_Witness ==
    /\ wav.op = "convertToMp3"
    /\ ~lamejs
    /\ Len(wav.pcm) = 3
    /\ wavBlob.type = "audio/wav"

----------------------------------------------------------------------------
(* Claims about mixAudio, checked under SpecMix *)

\* 24000 * D for the decoded speech is mixSampleRate * frames / ctxRate;
\* round(x) = floor(x + 1/2)
RoundedLength(frames, ctxRate) ==
    (2 * mixSampleRate * frames + ctxRate) \div (2 * ctxRate)

MusicContribution(i) ==
    mix.data[i + 1] - speechAt(mix.speech, i * playRatio(mix.ctxRate))

QuantProbes == {k * (FloatOne \div 10) : k \in -20..20}

\* the quantization rule of C6 for the float x and the sample q
QuantRule(x, q) ==
    /\ q \in -32768..32767
    /\ x >= FloatOne => q = 32767
    /\ x <= -FloatOne => q = -32768
    /\ x = 0 => q = 0
    /\ (-FloatOne < x /\ x < 0) => q = -(((-x) * 32768) \div FloatOne)
    /\ (0 <= x /\ x < FloatOne) => q = (x * 32767) \div FloatOne

\* C6: the quantization of mixAudio and of generateSynthesizedTrack maps 1.0
\* to 32767, -1.0 to -32768 and 0.0 to 0; inputs above 1 give 32767 and inputs
\* below -1 give -32768 (clamped, not wrapped), so every sample is in
\* [-32768, 32767]; negative inputs are scaled by 32768, the others by 32767.
C6_QuantizationClamps ==
    /\ mix.pc = "done" =>
          \A i \in 1..Len(mix.data) : QuantRule(mix.data[i], mix.pcm[i])
    /\ synth.pc = "done" =>
          \A i \in 1..Len(synth.data) : QuantRule(synth.data[i], synth.pcm[i])
    /\ \A x \in QuantProbes :
          QuantRule(x, mixFloatTo16(x)) /\ QuantRule(x, synthFloatTo16(x))

\* a mix whose rendered frames are above 1.0, below -1.0 and 0.0
C6_Witness ==
    /\ mix.pc = "done"
    /\ \E i, j, k \in 1..Len(mix.data) :
          /\ mix.data[i] > FloatOne /\ mix.pcm[i] = 32767
          /\ mix.data[j] < -FloatOne /\ mix.pcm[j] = -32768
          /\ mix.data[k] = 0 /\ mix.pcm[k] = 0

\* C10: if the speech or the music cannot be decoded, or rendering fails,
\* mixAudio fails as a whole: the error reaches the caller and no container is
\* returned, neither a partial one nor the speech alone.
C10_MixFailsWhole ==
    /\ mix.error # "none" =>
          /\ mix.pc = "failed"
          /\ mix.blob = NoBlob
          /\ mix.pcm = <<>>
    /\ mix.pc = "failed" => mix.error \in {"EncodingError", "NotSupportedError", "RenderError"}
    /\ mix.pc # "done" => mix.blob = NoBlob

\* the music failing to decode after the speech was decoded
C10_Witness ==
    /\ mix.pc = "failed"
    /\ mix.error = "EncodingError"
    /\ mix.speech # <<>>
    /\ mix.blob = NoBlob

\* the playhead of a source at output sample i: i * R / 24000 frames, with R
\* the rate the inputs were decoded at
Playhead(i) == (i * mix.ctxRate) \div mixSampleRate

C20_MixContainer ==
    mix.pc = "done" =>
        /\ mix.blob.type = "audio/wav"
        /\ getUint32(mix.blob.bytes, 24) = 24000
        /\ getUint16(mix.blob.bytes, 22) = 1
        /\ Len(mix.blob.bytes) = 44 + 2 * Len(mix.data)
        /\ Len(mix.data) = renderLength(Len(mix.speech), mix.ctxRate)

\* a mix of inputs decoded at 48000 Hz, wrapped
C20_Witness ==
    /\ mix.pc = "done"
    /\ mix.ctxRate = 48000
    /\ Len(mix.data) = 2
    /\ Len(mix.blob.bytes) = 48

----------------------------------------------------------------------------
(* Claims about generateSynthesizedTrack, checked under SpecSynth *)

\* C7: at the start of every generateSynthesizedTrack('lofi') call the running
\* average of the noise filter is zero; the value a previous call left is not
\* carried into the next call.
C7_LofiStartsFromZero ==
    synth.type = "lofi" => synth.startOut = 0

\* C8: two calls of generateSynthesizedTrack('ambient') give byte-identical
\* output, whatever calls (lofi included) ran before or between them; the same
\* for 'upbeat'.
C8_AmbientUpbeatDeterministic ==
    (synth.pc = "done" /\ synth.type \in {"ambient", "upbeat"}) =>
        /\ synth.blob.type = synthLog[synth.type].first.type
        /\ synth.blob.bytes = synthLog[synth.type].first.bytes

\* a later ambient call returning after a lofi call moved the filter state
C8_Witness ==
    /\ synth.pc = "done"
    /\ synth.type = "ambient"
    /\ synthLog["ambient"].n >= 2
    /\ synthLog["lofi"].n >= 1
    /\ lastOut # 0

Abs(x) == IF x < 0 THEN -x ELSE x

\* C9: two calls of generateSynthesizedTrack('lofi') return outputs of the same
\* length with identical 44-byte headers, and every quantized sample s has
\* |s| <= 32767 * 0.2, the noise part within 0.05 and the tone part within
\* 0.15, after any number of earlier lofi calls.
C9_LofiEnvelope ==
    /\ Abs(lastOut) <= FloatOne
    /\ (synth.type = "lofi" /\ synth.pc \in {"render", "done"}) =>
          \A i \in 1..Len(synth.noise) : 100 * Abs(synth.noise[i]) <= 5 * FloatOne
    /\ (synth.type = "lofi" /\ synth.pc = "done") =>
          /\ Len(synth.blob.bytes) = Len(synthLog["lofi"].first.bytes)
          /\ HeaderOf(synth.blob.bytes) = HeaderOf(synthLog["lofi"].first.bytes)
          /\ Len(synth.pcm) = SynthFrames
          /\ \A i \in 1..Len(synth.pcm) :
                /\ 10 * Abs(synth.pcm[i]) <= 32767 * 2
                /\ 100 * Abs(synth.data[i] - synth.noise[i]) <= 15 * FloatOne

\* a later lofi call, started from a moved filter state, whose noise differs
\* from the first call's and whose tone is at its peak
C9_Witness ==
    /\ synth.pc = "done"
    /\ synth.type = "lofi"
    /\ synthLog["lofi"].n >= 2
    /\ synth.startOut # 0
    /\ synth.blob.bytes # synthLog["lofi"].first.bytes
    /\ \E i \in 1..Len(synth.data) :
          100 * (synth.data[i] - synth.noise[i]) = 15 * FloatOne

----------------------------------------------------------------------------
(* Claims about base64ToUint8Array, checked under SpecB64 *)

RECURSIVE TrailingPads(_)
\* the number of '=' a string ends with
TrailingPads(s) ==
    IF s # <<>> /\ s[Len(s)] = "=" THEN 1 + TrailingPads(SubSeq(s, 1, Len(s) - 1)) ELSE 0

\* the string before its trailing '='
BodyOf(s) == SubSeq(s, 1, Len(s) - TrailingPads(s))

\* a base64 string: alphabet characters, then no padding (the length not 1
\* modulo 4) or the one or two '=' that fill the last group of 4
WellFormedB64(s) ==
    LET body == BodyOf(s)
        pads == TrailingPads(s)
    IN  /\ \A i \in 1..Len(body) : body[i] \in B64Alphabet
        /\ \/ pads = 0 /\ Len(body) % 4 # 1
           \/ pads = 1 /\ Len(body) % 4 = 3
           \/ pads = 2 /\ Len(body) % 4 = 2

\* 3 bytes per 4 characters, less the padding
DecodedLength(body) ==
    3 * (Len(body) \div 4) + (CASE Len(body) % 4 = 2 -> 1 [] Len(body) % 4 = 3 -> 2 [] OTHER -> 0)

\* the i-th group of 6 bits of a byte sequence, the bits past its end 0
SextetOfBytes(bytes, i) ==
    LET byte(j) == IF j <= Len(bytes) THEN bytes[j] ELSE 0
        g == 3 * ((i - 1) \div 4)
    IN  CASE (i - 1) % 4 = 0 -> byte(g + 1) \div 4
          [] (i - 1) % 4 = 1 -> (byte(g + 1) % 4) * 16 + byte(g + 2) \div 16
          [] (i - 1) % 4 = 2 -> (byte(g + 2) % 16) * 4 + byte(g + 3) \div 64
          [] OTHER           -> byte(g + 3) % 64

\* the text without its spaces
Unspaced(text) == SelectSeq(text, LAMBDA c : c # " ")

\* C14 as stated: the buffer's length is the decoded length of the input and
\* byte i is the i-th decoded byte, nothing added; on a character outside the
\* alphabet or invalid padding the call fails and returns no buffer.
C14_DecodeOrFail ==
    b64.status # "none" =>
        IF WellFormedB64(b64.text)
        THEN /\ b64.status = "ok"
             /\ Len(b64.bytes) = DecodedLength(BodyOf(b64.text))
        ELSE /\ b64.status = "InvalidCharacterError"
             /\ b64.bytes = <<>>

\* C14 as amended: ASCII whitespace in the input is ignored; of the rest, the
\* buffer's length is the decoded length (3 bytes per 4 characters, less
\* padding) and byte i is the i-th decoded byte, nothing added; on any other
\* character outside the alphabet or invalid padding the call fails and
\* returns no buffer.
C14_DecodeUnspacedOrFail ==
    b64.status # "none" =>
        LET body == BodyOf(Unspaced(b64.text))
        IN  IF WellFormedB64(Unspaced(b64.text))
            THEN /\ b64.status = "ok"
                 /\ Len(b64.bytes) = DecodedLength(body)
                 /\ \A j \in 1..Len(b64.bytes) : b64.bytes[j] \in 0..255
                 /\ \A i \in 1..Len(body) :
                       6 * i <= 8 * Len(b64.bytes) =>
                           SextetOfBytes(b64.bytes, i) = sextetOf(body[i])
                 /\ \A i \in 1..Len(body) :
                       (6 * (i - 1) < 8 * Len(b64.bytes) /\ 6 * i > 8 * Len(b64.bytes)) =>
                           \E low \in 0..15 :
                               sextetOf(body[i]) = SextetOfBytes(b64.bytes, i) + low
            ELSE /\ b64.status = "InvalidCharacterError"
                 /\ b64.bytes = <<>>

\* a padded string decoded to one byte, 0xFF
C14_Witness ==
    /\ b64.status = "ok"
    /\ b64.text = <<"/", "/", "=", "=">>
    /\ b64.bytes = <<255>>

----------------------------------------------------------------------------
(* Claims about processTTS, checked under SpecTTS *)

\* what C11 says of one step
C11_Step ==
    /\ (tts.pc = "mix" /\ tts'.pc # "mix") =>
          IF mix.pc = "done"
          THEN /\ tts'.pc = "done"
               /\ tts'.blobUrl = mix.blob
               /\ ~tts'.hasPcm
          ELSE /\ mix.pc = "failed"
               /\ tts'.pc = "done"
               /\ tts'.error = "none"
               /\ tts'.blobUrl = tts.speech
               /\ tts'.blobUrl.bytes = addWavHeader(tts.pcm, ttsSampleRate, 1)
               /\ tts'.hasPcm
               /\ tts'.pcmData = tts.pcm
    /\ (tts'.pc # "idle" /\ ~tts'.music) =>
          /\ mix' = mix
          /\ openCtx' = openCtx
          /\ tts'.mixCalls = 0

\* C11: in processTTS with a music file set, a failing mixAudio leaves the
\* result with the speech-only container and the original pcmData, and
\* processTTS does not fail; a successful mix gives the mixed container and no
\* pcmData; without a music file mixAudio is never called.
C11_TtsMixFallback == [][C11_Step]_vars

\* processTTS returned the speech alone after the mixAudio call it made failed
C11_Witness ==
    /\ tts.pc = "done"
    /\ tts.music
    /\ tts.mixCalls = 1
    /\ tts.hasPcm
    /\ tts.pcmData # <<>>
    /\ tts.blobUrl = tts.speech

----------------------------------------------------------------------------
(* Claims about long inputs of the encoders, checked under SpecLong *)

\* the samples handed to the encodeBuffer calls, one after the other
FedSamples(calls) ==
    Flatten([k \in 1..(Len(calls) - 1) |-> calls[k].samples])

\* what the encoder returned, call after call
EmittedBytes(calls) == Flatten([k \in 1..Len(calls) |-> calls[k].out])

\* C12: with an encoder present, convertToMp3 feeds the PCM as consecutive
\* blocks of at most 1152 Int16 samples in ascending order, each of the
\* pcm.length/2 samples in exactly one block, then calls flush exactly once
\* after the last block; the result is tagged audio/mp3 and is the
\* concatenation of the encoder outputs in the order emitted, flush's last.
C12_Mp3BlocksThenFlush ==
    (wav.op = "convertToMp3" /\ lamejs /\ wav.status = "ok") =>
        LET calls == wav.encCalls
            n     == Len(calls) - 1
        IN  /\ n >= 0
            /\ calls[n + 1].fn = "flush"
            /\ \A k \in 1..n :
                  /\ calls[k].fn = "encodeBuffer"
                  /\ Len(calls[k].samples) <= 1152
                  /\ Len(calls[k].samples) >= 1
            /\ Len(FedSamples(calls)) = Len(wav.pcm) \div 2
            /\ FedSamples(calls) = BytesInt16(wav.pcm)
            /\ wavBlob.type = "audio/mp3"
            /\ wavBlob.bytes = EmittedBytes(calls)
            /\ \A k \in 1..(n + 1) :
                  calls[k].reply = "bytes" => calls[k].out # <<>>

\* an input of one block and one sample more, fed as a block of 1152 and a
\* block of 1 (the sample 1153); the first call and flush emitted
C12_Witness ==
    /\ wav.op = "convertToMp3"
    /\ lamejs
    /\ wav.status = "ok"
    /\ Len(wav.encCalls) = 3
    /\ Len(wav.encCalls[1].samples) = 1152
    /\ Len(wav.encCalls[2].samples) = 1
    /\ wav.encCalls[2].samples[1] = 1153
    /\ wavBlob.bytes = <<1, 3>>

\* C16: wrapping 96000 zero bytes with addWavHeader at 24000 Hz mono yields
\* 96044 bytes, the bytes at offsets 24-27 being C0 5D 00 00 (24000) and those
\* at offsets 40-43 being 00 77 01 00 (96000). The rate field is the same for
\* every payload wrapped at 24000 Hz.
C16_SilenceExample ==
    (/\ wav.op = "addWavHeader"
     /\ wav.rate = 24000
     /\ wav.ch = 1) =>
        /\ SubSeq(wavBlob.bytes, 25, 28) = <<192, 93, 0, 0>>
        /\ getUint32(wavBlob.bytes, 24) = 24000
        /\ wav.pcm = [i \in 1..96000 |-> 0] =>
              /\ Len(wavBlob.bytes) = 96044
              /\ SubSeq(wavBlob.bytes, 41, 44) = <<0, 119, 1, 0>>
              /\ getUint32(wavBlob.bytes, 40) = 96000

\* the two seconds of silence were wrapped
C16_Witness ==
    /\ wav.op = "addWavHeader"
    /\ Len(wav.pcm) = 96000
    /\ \A i \in 1..Len(wav.pcm) : wav.pcm[i] = 0
    /\ wav.rate = 24000
    /\ wav.ch = 1
    /\ wav.status = "ok"
    /\ Len(wavBlob.bytes) = 96044

----------------------------------------------------------------------------
(* Claims about calls in flight together, checked under SpecOverlap *)

\* what the call s returns when it is the only call made: its filter starts
\* from the initial lastOut, 0
AloneBlob(s) == synthReturned(synthStarted(s.type, 0, s.whites)).blob

\* C18: calls into the audio core that overlap in time do not interact: no
\* state is shared between calls, so each call's result is the one it would
\* produce if it ran alone.
C18_OverlappingCallsAlone ==
    /\ synth.pc = "done" => synth.blob = AloneBlob(synth)
    /\ synthB.pc = "done" => synthB.blob = AloneBlob(synthB)

----------------------------------------------------------------------------
(* Claims about errors and storage, checked under SpecCore *)

\* the error raised inside the convertToMp3 call of the wav record, if any
RaisedInMp3 ==
    IF ~lamejs THEN "none"
    ELSE IF Len(wav.pcm) % 2 # 0 THEN "RangeError"
    ELSE IF wav.encCalls # <<>> /\ wav.encCalls[Len(wav.encCalls)].reply = "throws"
         THEN "EncoderError"
    ELSE "none"

\* the error raised inside the mixAudio call of a failed mix record
RaisedInMix(m) ==
    IF m.speech = <<>> \/ m.music = <<>> THEN "EncodingError"
    ELSE IF renderLength(Len(m.speech), m.ctxRate) = 0 THEN "NotSupportedError"
    ELSE "RenderError"

C13_State ==
    /\ wav.op = "convertToMp3" =>
          /\ wav.status = IF RaisedInMp3 = "none" THEN "ok" ELSE RaisedInMp3
          /\ RaisedInMp3 # "none" => (wavBlob = NoBlob /\ wav.out = 0)
          /\ (wav.status = "ok" /\ wavBlob.type = "audio/wav") <=> ~lamejs
          /\ \A k \in 1..(Len(wav.encCalls) - 1) : wav.encCalls[k].reply # "throws"
    /\ mix.pc = "failed" =>
          /\ mix.error = RaisedInMix(mix)
          /\ mix.blob = NoBlob
          /\ mix.pcm = <<>>
    /\ mix.pc = "done" => mix.error = "none"
    /\ synth.pc = "failed" =>
          /\ synth.error = "RenderError"
          /\ synth.blob = NoBlob
          /\ synth.pcm = <<>>
    /\ synth.pc = "done" => synth.error = "none"

\* a failed call takes no further step: what follows is a call of the caller's
C13_Step ==
    /\ (mix.pc = "failed" /\ mix' # mix) =>
          (mix'.pc = "decodeSpeech" /\ openCtx' = openCtx + 1)
    /\ (synth.pc = "failed" /\ synth' # synth) =>
          (synth'.pc = "render" /\ SynthCalls' = SynthCalls + 1)

\* C13: a missing MP3 capability is the only failure convertToMp3 turns into a
\* successful result; every other error (the encoder's, or the one of taking
\* the bytes as Int16 samples) reaches the caller as raised and nothing is
\* returned; mixAudio and generateSynthesizedTrack hand on every error as
\* raised and retry nothing.
C13_ErrorsPropagate == [](C13_State) /\ [][C13_Step]_vars

\* the encoder threw in its second call, and convertToMp3 failed with that
C13_Witness ==
    /\ wav.op = "convertToMp3"
    /\ lamejs
    /\ wav.status = "EncoderError"
    /\ Len(wav.encCalls) = 2
    /\ wavBlob = NoBlob

C17_State ==
    /\ wav.op # "none" =>
          /\ 1 \notin wav.written
          /\ wav.status = "ok" =>
                /\ wav.out \in 2..wav.nbufs
                /\ wav.out \in wav.written
                /\ wavBlob # NoBlob
          /\ wav.status # "ok" => (wav.written = {} /\ wav.out = 0)

\* the decoded inputs of a mix are the same after the render as before it
C17_Step ==
    (mix.pc = "render" /\ mix'.pc \in {"done", "failed"}) =>
        /\ mix'.speech = mix.speech
        /\ mix'.music = mix.music

\* C17: no operation of the audio core mutates its input: after addWavHeader,
\* convertToMp3 or mixAudio returns or fails, the input buffers hold the bytes
\* they held before the call, and the returned buffer is freshly allocated,
\* sharing no storage with the input.
C17_InputsUntouched == [](C17_State) /\ [][C17_Step]_vars

\* convertToMp3 returned an MP3 of its own while the input still holds its bytes
C17_Witness ==
    /\ wav.op = "convertToMp3"
    /\ wav.status = "ok"
    /\ wavBlob.type = "audio/mp3"
    /\ wavBlob.bytes # <<>>
    /\ wav.pcm # <<>>
    /\ wav.written = {2}
    /\ wav.out = 2

----------------------------------------------------------------------------
(* Claims about the audio contexts of mixAudio, checked under SpecMix *)

\* C29: every audio context that mixAudio creates is closed by the time the
\* call returns or fails, so after any number of mixAudio calls no audio
\* context created by mixAudio is open.
C29_ContextsReleased == MixIdle => openCtx = 0

----------------------------------------------------------------------------
(* Claims about the upbeat preset, checked under SpecSynth *)

\* C21: for the upbeat preset the oscillator frequency is scheduled at every
\* multiple of 0.25 s from 0 to the end of the 10 seconds (40 steps), step k
\* (k = 0..39) setting the k mod 4-th note of 440, 554, 659, 880 Hz at time
\* k * 0.25 s: the sequence repeats in that order, no step skipped or repeated.
C21_UpbeatSchedule ==
    synth.type = "upbeat" =>
        /\ Len(synth.schedule) = 40
        /\ \A k \in 0..39 :
              /\ synth.schedule[k + 1].atMs = k * 250
              /\ synth.schedule[k + 1].freq =
                    CASE k % 4 = 0 -> 440
                      [] k % 4 = 1 -> 554
                      [] k % 4 = 2 -> 659
                      [] k % 4 = 3 -> 880
        /\ synth.schedule[40].atMs < 10 * 1000

\* an upbeat call with its forty steps scheduled, the last one 880 Hz at 9.75 s
C21_Witness ==
    /\ synth.type = "upbeat"
    /\ synth.pc = "render"
    /\ Len(synth.schedule) = 40
    /\ synth.schedule[40] = [freq |-> 880, atMs |-> 9750]

----------------------------------------------------------------------------
(* Claims about the service functions, checked under SpecSvc *)

\* the substrings of the message that reached the handler
CaughtMsg == IF svc.caught.hasMessage THEN svc.caught.message ELSE svc.caught.string

\* C28: handleGeminiError never returns normally: for every error it throws
\* exactly one new error, classified by the first matching rule in the order
\* quota (429/quota), API key (401/403/API key), not found (404/not found),
\* overloaded (503/overloaded), else generic 'API Error'; so every service
\* function either returns a value or throws, and never resolves to undefined
\* after an error.
C28_HandlerAlwaysThrows ==
    /\ \A error \in Errors : handleGeminiError(error).threw
    /\ svc.pc = "resolved" => svc.value \in {"speech", "text", ""}
    /\ svc.pc = "rejected" =>
          svc.thrown =
             CASE CaughtMsg \cap {"429", "quota"} # {} -> "Quota exceeded"
               [] /\ CaughtMsg \cap {"429", "quota"} = {}
                  /\ CaughtMsg \cap {"401", "403", "API key"} # {} -> "API Key Error"
               [] /\ CaughtMsg \cap {"429", "quota", "401", "403", "API key"} = {}
                  /\ CaughtMsg \cap {"404", "not found"} # {}
                      -> "Model or Resource not found. (404)"
               [] /\ CaughtMsg \cap {"429", "quota", "401", "403", "API key",
                                     "404", "not found"} = {}
                  /\ CaughtMsg \cap {"503", "overloaded"} # {} -> "Service overloaded"
               [] OTHER -> "API Error"

\* a rejected call whose error matched two rules and got the earlier one
C28_Witness ==
    /\ svc.pc = "rejected"
    /\ svc.fn = "transcribeAudio"
    /\ {"403", "404"} \subseteq CaughtMsg
    /\ "429" \notin CaughtMsg
    /\ svc.thrown = "API Key Error"

----------------------------------------------------------------------------
(* Claims about generateVideo, checked under SpecVideo *)

\* C27: generateVideo returns a video URL only after it observed the operation
\* with done = true, polling until then; a done operation without a video URI,
\* or any service error, makes the call fail (never return a URL), a not-found
\* (404) error being reported as an 'API Key Error' before any other
\* classification.
C27_UrlOnlyFromSuccess ==
    /\ video.pc = "resolved" =>
          /\ video.value = "url"
          /\ video.sawDone
          /\ video.uri
          /\ video.http = 200
    /\ video.pc = "rejected" /\ isNotFound(video.caught) =>
          video.thrown = "API Key Error: Please re-select your paid API key."

----------------------------------------------------------------------------
(* Claims about the AudioRecorder component, checked under SpecRec *)

Recording == {id \in 1..Len(rec.recorders) : rec.recorders[id].state = "recording"}

\* C25: at most one recorder and at most one recording-timer interval are
\* active at any time, and after stopRecording no interval keeps incrementing
\* recordingTime, also when startRecording is invoked a second time while the
\* first invocation still awaits microphone access.
C25_OneRecorderOneTimer ==
    /\ Cardinality(Recording) <= 1
    /\ Cardinality(rec.intervals) <= 1
    /\ ~rec.isRecording => rec.intervals = {}

\* C26: with a maximum duration set, a running recording is stopped as soon
\* as recordingTime reaches maxDuration, and recordingTime never exceeds
\* maxDuration while recording; every recording that was started and then
\* stopped (by hand or automatically) has invoked onRecordingComplete exactly
\* once when its stop event is delivered and not before; stopRecording while
\* not recording changes nothing.
C26_State ==
    /\ rec.isRecording /\ rec.maxDuration # NoMaxDuration =>
          rec.recordingTime < rec.maxDuration
    /\ \A id \in 1..Len(rec.recorders) :
          rec.recorders[id].completes =
             IF rec.recorders[id].state = "inactive" THEN 1 ELSE 0

C26_Step ==
    rec'.lastOp = "stop" /\ ~rec.isRecording =>
        rec' = [rec EXCEPT !.lastOp = "stop"]

----------------------------------------------------------------------------
(* Claims about handleBatchGenerate, checked under SpecBatch *)

\* the integer nearest to 100 * completed / total, halves upwards
RoundedPercent(completed, total) == (200 * completed + total) \div (2 * total)

\* the lines are taken one at a time and in order, a line that fails adds
\* nothing, one that succeeds prepends its one result and is counted, and the
\* batch ends after its last line with isGenerating false and progress 0
C23_Step ==
    /\ app'.batch.line # app.batch.line =>
          \/ app.batch.pc = "idle" /\ app'.batch.line = 1
          \/ /\ app.batch.pc = "delay"
             /\ app'.batch.pc = "awaiting"
             /\ app'.batch.line = app.batch.line + 1
          \/ /\ app.batch.pc = "delay"
             /\ app.batch.line = app.batch.total
             /\ app'.batch = NoBatch
    /\ app.batch.pc = "awaiting" /\ app'.batch.pc = "delay" =>
          \/ /\ app'.audioResults = app.audioResults
             /\ app'.batch.completed = app.batch.completed
          \/ /\ app'.audioResults =
                   <<[type |-> "batch", line |-> app.batch.line]>> \o app.audioResults
             /\ app'.batch.completed = app.batch.completed + 1
    /\ app'.audioResults # app.audioResults => app.batch.pc = "awaiting"
    /\ app.batch.pc # "idle" /\ app'.batch.pc = "idle" =>
          /\ app.batch.line = app.batch.total
          /\ ~app'.isGenerating
          /\ app'.progress = 0

C23_ExactState ==
    app.batch.pc = "delay" =>
        app.progress = RoundedPercent(app.batch.completed, app.batch.total)

\* C23 as stated: handleBatchGenerate processes every non-blank line exactly
\* once, in input order, the next line only after the previous one settled; a
\* failing line does not stop the rest and adds no result; each successful
\* line prepends exactly one result; progress after each line is
\* round(100 * completed / total) counting successful lines only; when the
\* batch ends isGenerating is false and progress is 0.
C23_BatchProgressExact == [](C23_ExactState) /\ [][C23_Step]_vars

C23_AmendedState ==
    app.batch.pc = "delay" =>
        LET exact == RoundedPercent(app.batch.completed, app.batch.total)
        IN  /\ app.progress \in {exact - 1, exact}
            /\ app.progress = exact - 1 =>
                  (200 * app.batch.completed) % (2 * app.batch.total) = app.batch.total

\* C23 amended: as stated, except that progress after each line is
\* Math.round((completed / total) * 100) in double arithmetic: the integer
\* nearest to 100 * completed / total, or one below it where that value lies
\* exactly on a half and the double product falls short of it.
C23_BatchProgressDouble == [](C23_AmendedState) /\ [][C23_Step]_vars

\* a batch of 40 lines whose first two lines failed and the next 23
\* succeeded: progress 57 where 100 * 23 / 40 is 57.5
C23_Witness ==
    /\ app.batch = [pc |-> "delay", total |-> 40, line |-> 25, completed |-> 23]
    /\ app.progress = 57
    /\ Len(app.audioResults) = 23
    /\ app.audioResults[1] = [type |-> "batch", line |-> 25]

----------------------------------------------------------------------------
(* Claims about the handlers of App, checked under SpecApp *)

InFlight ==
    \/ app.generate = "awaiting"
    \/ app.translate = "awaiting"
    \/ app.script = "awaiting"
    \/ app.batch.pc # "idle"
    \/ \E i \in 1..MaxVideos : app.videos[i] # "idle"

\* C22: whenever a generation operation started by handleGenerateTTS,
\* handleBatchGenerate, handleTranslate, handleGenerateScript or
\* handleSpeechToVideo still awaits its result, isGenerating is true, under
\* every interleaving of user actions, Speech-to-Video started from the
\* Recorder tab during a batch included; so no second TTS or batch generation
\* can start while one is in flight.
C22_GeneratingWhileInFlight == InFlight => app.isGenerating

\* C24: each of handleGenerateTTS, handleTranslate, handleGenerateScript and
\* handleSpeechToVideo ends with isGenerating false and statusMessage empty,
\* whether its call succeeded or failed; on failure error is set to a message
\* and no result is added, on success exactly one result is prepended (TTS,
\* video) or the text is replaced (translate, script).
C24_Step ==
    /\ app'.last # app.last
    /\ app'.last.handler # "handleBatchGenerate"
    => /\ ~app'.isGenerating
       /\ app'.statusMessage = ""
       /\ app'.last.outcome = "failed" =>
             /\ app'.error # "null"
             /\ app'.audioResults = app.audioResults
             /\ app'.videoResults = app.videoResults
       /\ app'.last.outcome = "ok" =>
             CASE app'.last.handler = "handleGenerateTTS" ->
                    /\ Tail(app'.audioResults) = app.audioResults
                    /\ app'.videoResults = app.videoResults
               [] app'.last.handler = "handleSpeechToVideo" ->
                    /\ Tail(app'.videoResults) = app.videoResults
                    /\ app'.audioResults = app.audioResults
               [] app'.last.handler = "handleTranslate" -> app'.text = "translated"
               [] app'.last.handler = "handleGenerateScript" -> app'.text = "script"

C24_HandlersSettle == [][C24_Step]_vars

====
